---- MODULE Spec2Model ----
(***************************************************************************)
(* A model of the streaming template renderer of lit-ssr (render.ts:       *)
(* render, renderValue, renderTemplateResult and its handleNode) as a      *)
(* machine of generator frames.  Markup is a sequence of tokens, one token *)
(* per source offset, so that the offset arithmetic of flushTo and skipTo  *)
(* is the code's.                                                          *)
(***************************************************************************)
EXTENDS Integers, Sequences, FiniteSets, TLC

(***************************************************************************)
(* Bounds of the input space.                                              *)
(***************************************************************************)
MaxArrayLen == 2

(***************************************************************************)
(* Markup tokens.  A TemplateResult's getHTML() joins its strings around   *)
(* marker tokens: a child-position value becomes a marker comment, an      *)
(* attribute-position value a marker inside the value of an attribute      *)
(* whose name gets the $lit$ suffix.  A marker inside a raw-text element   *)
(* (<style>) is parsed as text.                                            *)
(*   t = "open"   <tag            s = tag name                             *)
(*   t = "sattr"  name="value"    s = name, v = <<value>>                  *)
(*   t = "battr"  name$lit$="..." s = name (suffix dropped), v = the raw    *)
(*                                value: literals and Marker               *)
(*   t = "pattr"  .name$lit$="..." s = the property name, v = the raw value *)
(*   t = "gt"     >                                                        *)
(*   t = "end"    </tag>          s = tag name                             *)
(*   t = "text"   literal text    s = the text                             *)
(*   t = "marker" <!--{{lit-N}}-->                                         *)
(*   t = "raw"    a marker inside a raw-text element                       *)
(***************************************************************************)
Marker == "{{lit}}"

Tk(t, s, v) == [t |-> t, s |-> s, v |-> v]
Open(tag) == Tk("open", tag, <<>>)
SAttr(name, val) == Tk("sattr", name, <<val>>)
BAttr(name, parts) == Tk("battr", name, parts)
PAttr(name, parts) == Tk("pattr", name, parts)
Gt == Tk("gt", "", <<>>)
End(tag) == Tk("end", tag, <<>>)
Text(s) == Tk("text", s, <<>>)
MarkerComment == Tk("marker", "", <<>>)
RawMarker == Tk("raw", "", <<>>)

(***************************************************************************)
(* The templates of the input space, by the identity of their strings.     *)
(***************************************************************************)
TemplateIds ==
  {"plain", "attrChild", "multi", "three", "child", "pair", "style",
   "host", "hostVals", "hostAttr", "bad", "fallback", "xel", "xdef",
   "light"}

Html(id) ==
  CASE id = "plain" ->
         \* <p id="s">text</p>
         <<Open("p"), SAttr("id", "s"), Gt, Text("text"), End("p")>>
    [] id = "attrChild" ->
         \* <div class="${a}">${b}</div>
         <<Open("div"), BAttr("class", <<Marker>>), Gt, MarkerComment,
           End("div")>>
    [] id = "multi" ->
         \* <div class="a ${x} b ${y}" id="s" title="${z}" lang="en">t</div>
         <<Open("div"), BAttr("class", <<"a ", Marker, " b ", Marker>>),
           SAttr("id", "s"), BAttr("title", <<Marker>>), SAttr("lang", "en"),
           Gt, Text("t"), End("div")>>
    [] id = "three" ->
         \* <input a="${x}" b="${y}" .value="${z}">
         <<Open("input"), BAttr("a", <<Marker>>), BAttr("b", <<Marker>>),
           PAttr("value", <<Marker>>), Gt>>
    [] id = "child" ->
         \* ${a}
         <<MarkerComment>>
    [] id = "pair" ->
         \* <ul><li>${a}</li>${b}</ul>tail
         <<Open("ul"), Gt, Open("li"), Gt, MarkerComment, End("li"),
           MarkerComment, End("ul"), Text("tail")>>
    [] id = "style" ->
         \* <style>${css}</style><b>${a}</b>
         <<Open("style"), Gt, RawMarker, End("style"), Open("b"), Gt,
           MarkerComment, End("b")>>
    [] id = "host" ->
         \* <x-el><p slot="x">A</p><p slot="y">B</p></x-el>
         <<Open("x-el"), Gt, Open("p"), SAttr("slot", "x"), Gt, Text("A"),
           End("p"), Open("p"), SAttr("slot", "y"), Gt, Text("B"), End("p"),
           End("x-el")>>
    [] id = "hostVals" ->
         \* <x-el><p slot="x">${a}</p></x-el>${b}
         <<Open("x-el"), Gt, Open("p"), SAttr("slot", "x"), Gt,
           MarkerComment, End("p"), End("x-el"), MarkerComment>>
    [] id = "hostAttr" ->
         \* <x-el><p slot="x"><b title="${a}">t</b></p></x-el>
         <<Open("x-el"), Gt, Open("p"), SAttr("slot", "x"), Gt, Open("b"),
           BAttr("title", <<Marker>>), Gt, Text("t"), End("b"), End("p"),
           End("x-el")>>
    [] id = "bad" ->
         \* <x-bad title="${a}" .prop="${b}"><p>in</p></x-bad>${c}
         <<Open("x-bad"), BAttr("title", <<Marker>>),
           PAttr("prop", <<Marker>>), Gt, Open("p"), Gt, Text("in"),
           End("p"), End("x-bad"), MarkerComment>>
    [] id = "fallback" ->
         \* <div><slot name="x">${f}</slot>t</div>
         <<Open("div"), Gt, Open("slot"), SAttr("name", "x"), Gt,
           MarkerComment, End("slot"), Text("t"), End("div")>>
    [] id = "xel" ->
         \* the template of x-el: <div><slot name="x">fallback</slot></div>
         <<Open("div"), Gt, Open("slot"), SAttr("name", "x"), Gt,
           Text("fallback"), End("slot"), End("div")>>
    [] id = "xdef" ->
         \* the template of x-def: <slot></slot>
         <<Open("slot"), Gt, End("slot")>>
    [] id = "light" ->
         \* the renderLight() template of x-el: <i>light</i>
         <<Open("i"), Gt, Text("light"), End("i")>>

(***************************************************************************)
(* The parsed tree (parse5 with sourceCodeLocationInfo).  Token i covers   *)
(* the offsets [i-1, i).  A node is named by the index of its first token; *)
(* document order is index order.                                          *)
(***************************************************************************)
Undef == "<undefined>"

VoidTags == {"input"}

IsNodeStart(h, i) == h[i].t \in {"open", "text", "marker", "raw"}

isElement(h, i) == h[i].t = "open"

isCommentNode(h, i) == h[i].t = "marker"

isTextNode(h, i) == h[i].t \in {"text", "raw"}

\* The comment's data: the marker token for a marker comment.
CommentData(h, i) == IF h[i].t = "marker" THEN Marker ELSE ""

\* The index of the ">" that ends the start tag opened at i.
StartTagEndIdx(h, i) ==
  CHOOSE j \in (i + 1)..Len(h) :
    /\ h[j].t = "gt"
    /\ \A k \in (i + 1)..(j - 1) : h[k].t # "gt"

RECURSIVE MatchEnd(_, _, _)
\* The index of the end tag that closes the element whose content starts at
\* j, depth counting the elements open around j.
MatchEnd(h, j, depth) ==
  IF j > Len(h) THEN Len(h)
  ELSE IF h[j].t = "end"
    THEN IF depth = 1 THEN j ELSE MatchEnd(h, j + 1, depth - 1)
  ELSE IF h[j].t = "open" /\ h[j].s \notin VoidTags
    THEN MatchEnd(h, j + 1, depth + 1)
  ELSE MatchEnd(h, j + 1, depth)

\* The index of the last token of node i.
EndIdx(h, i) ==
  IF ~isElement(h, i) THEN i
  ELSE IF h[i].s \in VoidTags THEN StartTagEndIdx(h, i)
  ELSE MatchEnd(h, StartTagEndIdx(h, i) + 1, 1)

\* sourceCodeLocation: startOffset, startTag.startOffset, startTag.endOffset,
\* endOffset.
StartOffset(h, i) == i - 1

StartTagEndOffset(h, i) == StartTagEndIdx(h, i)

EndOffset(h, i) == EndIdx(h, i)

NodeIds(h) == {i \in 1..Len(h) : IsNodeStart(h, i)}

\* j is a strict descendant of the element i.
Inside(h, i, j) == isElement(h, i) /\ i < j /\ j <= EndIdx(h, i)

RECURSIVE Ascending(_)
Ascending(S) ==
  IF S = {} THEN <<>>
  ELSE LET m == CHOOSE x \in S : \A y \in S : x <= y
       IN <<m>> \o Ascending(S \ {m})

\* depthFirst(node): the node, then its descendants in pre-order.
depthFirst(h, i) ==
  Ascending({i} \cup {j \in NodeIds(h) : Inside(h, i, j)})

\* ast.childNodes: the nodes no element contains.
TopNodes(h) ==
  Ascending({j \in NodeIds(h) : \A i \in NodeIds(h) : ~Inside(h, i, j)})

\* node.childNodes: the nodes whose nearest containing element is i.
ChildNodes(h, i) ==
  Ascending({j \in NodeIds(h) :
    /\ Inside(h, i, j)
    /\ \A k \in NodeIds(h) : ~(Inside(h, i, k) /\ Inside(h, k, j))})

\* node.attrs, in source order, by token index.
AttrIdxs(h, i) ==
  IF isElement(h, i)
  THEN [k \in 1..(StartTagEndIdx(h, i) - i - 1) |-> i + k]
  ELSE <<>>

\* getAttr(node, name): the value of a literal attribute, or undefined.
getAttr(h, i, name) ==
  LET hits == {k \in 1..Len(AttrIdxs(h, i)) :
                 /\ h[AttrIdxs(h, i)[k]].t = "sattr"
                 /\ h[AttrIdxs(h, i)[k]].s = name}
  IN IF hits = {} THEN Undef
     ELSE h[AttrIdxs(h, i)[CHOOSE k \in hits : \A m \in hits : k <= m]].v[1]

RECURSIVE CountMarkers(_)
\* The number of marker tokens in the raw value of a bound attribute.
CountMarkers(parts) ==
  IF parts = <<>> THEN 0
  ELSE (IF Head(parts) = Marker THEN 1 ELSE 0) + CountMarkers(Tail(parts))

RECURSIVE MarkerKinds(_)
\* The position kind of each value of a template, in the order of its
\* strings: "attr" for a marker inside an attribute value, "child" else.
MarkerKinds(h) ==
  IF h = <<>> THEN <<>>
  ELSE LET k == Head(h)
       IN (CASE k.t \in {"battr", "pattr"} ->
                  [n \in 1..CountMarkers(k.v) |-> "attr"]
             [] k.t \in {"marker", "raw"} -> <<"child">>
             [] OTHER -> <<>>)
          \o MarkerKinds(Tail(h))

\* result.values.length: one value between each two strings.
NumValues(id) == Len(MarkerKinds(Html(id)))

(***************************************************************************)
(* Values.  k names the kind the dispatch of renderValue tells apart; s is *)
(* the text of a primitive, the resolved string of a class-map or the      *)
(* strings identity of a TemplateResult; items are the elements of an      *)
(* array, the items of a repeat or the values of a TemplateResult.         *)
(***************************************************************************)
Val(k, s, items) == [k |-> k, s |-> s, items |-> items]
StrV(s) == Val("str", s, <<>>)
NullV == Val("null", "", <<>>)
UndefinedV == Val("undefined", "", <<>>)
NothingV == Val("nothing", "", <<>>)
RenderLightV == Val("renderLight", "", <<>>)
ClassMapV(s) == Val("classMap", s, <<>>)
ArrayV(items) == Val("array", "", items)
RepeatV(items) == Val("repeat", "", items)
TemplateResult(id, vals) == Val("tpl", id, vals)

isTemplateResult(v) == v.k = "tpl"

\* result.values[i]: undefined past the end.
ValueAt(vals, i) ==
  IF i >= 0 /\ i < Len(vals) THEN vals[i + 1] ELSE UndefinedV

\* String(value).
String(v) ==
  CASE v.k = "str" -> v.s
    [] v.k = "null" -> "null"
    [] v.k = "undefined" -> "undefined"
    [] v.k = "array" -> "<items joined by commas>"
    [] v.k \in {"classMap", "repeat", "renderLight"} -> "<function source>"
    [] OTHER -> "[object Object]"

(***************************************************************************)
(* Output tokens: a literal token of a template's markup, by template and  *)
(* token index; the bracket markers; a stringified value; a resolved       *)
(* attribute; the hidden count attribute.                                  *)
(***************************************************************************)
Out(t, s, n, v) == [t |-> t, s |-> s, n |-> n, v |-> v]
Lit(id, i) == Out("lit", id, i, <<>>)
\* <!--lit-part DIGEST--> and <!--lit-part-->
OpenPart(digest) == Out("open", digest, 0, <<>>)
\* <!--/lit-part-->
ClosePart == Out("close", "", 0, <<>>)
StrTok(s) == Out("str", s, 0, <<>>)
\* name="pieces"
AttrTok(name, pieces) == Out("attr", name, 0, pieces)
\* ' __lit-attr="n"'
CountTok(n) == Out("count", "", n, <<>>)

\* The digest of a TemplateResult: one per strings identity.
Digest(v) == v.s

\* lastOffset = undefined
UndefOff == -1

Min(a, b) == IF a <= b THEN a ELSE b
Max(a, b) == IF a >= b THEN a ELSE b

SubstringEndNaN(id, from, to) ==
  LET len == Len(Html(id))
      a == Max(0, Min(from, len))
      b == IF to = UndefOff THEN 0 ELSE Max(0, Min(to, len))
  IN [k \in 1..(Max(a, b) - Min(a, b)) |-> Lit(id, Min(a, b) + k)]

\* html.substring(from, to): both ends clamped to the markup, swapped when
\* from > to, to = undefined meaning the end.  The tokens are given by
\* index.
Substring(id, from, to) ==
  LET len == Len(Html(id))
      a == Max(0, Min(from, len))
      b == IF to = UndefOff THEN len ELSE Max(0, Min(to, len))
  IN [k \in 1..(Max(a, b) - Min(a, b)) |-> Lit(id, Min(a, b) + k)]

(***************************************************************************)
(* The input space: the values a caller hands to render().                 *)
(***************************************************************************)
SeqsUpTo(S, n) == UNION {[1..k -> S] : k \in 0..n}

Prims == {StrV("a"), StrV("b")}

Items == {StrV("a"), TemplateResult("child", <<StrV("b")>>)}

Arrays ==
  {ArrayV(q) : q \in SeqsUpTo(Items, MaxArrayLen)}
    \cup {ArrayV(<<ArrayV(<<StrV("a")>>)>>)}

Repeats ==
  {RepeatV(q) :
     q \in SeqsUpTo({TemplateResult("child", <<StrV("a")>>)}, MaxArrayLen)}

Nested ==
  {TemplateResult("plain", <<>>), TemplateResult("child", <<NothingV>>),
   TemplateResult("host", <<>>)}

ChildValues ==
  Prims \cup {NullV, UndefinedV, NothingV, RenderLightV}
    \cup Arrays \cup Repeats \cup Nested

AttrValues == {StrV("a"), StrV("b"), UndefinedV, ClassMapV("c")}

\* The values a template is rendered with: one per marker, of a kind the
\* marker's position takes.
ValuesFor(id) ==
  {vals \in [1..NumValues(id) -> ChildValues \cup AttrValues] :
     \A k \in 1..NumValues(id) :
       vals[k] \in (IF MarkerKinds(Html(id))[k] = "attr"
                    THEN AttrValues ELSE ChildValues)}

RootTemplates ==
  {"plain", "attrChild", "multi", "three", "child", "pair", "style",
   "host", "hostVals", "hostAttr", "bad", "fallback", "xel"}

\* render(value, undefined, flattened)
Inputs ==
  UNION {{[value |-> TemplateResult(id, vals), flattened |-> fl] :
            vals \in ValuesFor(id), fl \in BOOLEAN} : id \in RootTemplates}
    \cup {[value |-> v, flattened |-> fl] :
            v \in ChildValues, fl \in BOOLEAN}

(***************************************************************************)
(* The component registry (customElements) and the components' render      *)
(* methods.                                                                *)
(***************************************************************************)
\* tagName.indexOf('-') !== -1
HasDash(tag) == tag \in {"x-el", "x-def", "x-bad", "y-none"}

\* customElements.get(tagName): "none" for undefined; "throws" for a
\* constructor that throws.
Ctor(tag) ==
  CASE tag \in {"x-el", "x-def"} -> "ok"
    [] tag = "x-bad" -> "throws"
    [] OTHER -> "none"

\* instance.render()
RenderOf(tag) ==
  IF tag = "x-def" THEN TemplateResult("xdef", <<>>)
  ELSE TemplateResult("xel", <<>>)

\* instance.renderLight()
RenderLightOf(tag) == TemplateResult("light", <<>>)

(***************************************************************************)
(* The state.  call[r] is one call of render(): the chain of suspended     *)
(* generators (stack, innermost last), the chunks handed to the consumer   *)
(* (out), and the objects the call allocated: renderInfo.instances, the    *)
(* claimed-node sets, the child renderers and the component instances.     *)
(* templateCache is the one module-level object.  hydration is one call of *)
(* hydrateShadowRoots(root) and the document it works on.                  *)
(***************************************************************************)
VARIABLES call, templateCache, hydration

vars == <<call, templateCache, hydration>>

\* hydrateShadowRoots is not called.
NoDocument == [status |-> "none"]

Calls == {1, 2}

\* renderInfo.slot === undefined
NoSlot == "<no slot request>"

Top(c) == c.stack[Len(c.stack)]

SetTop(c, f) == [c EXCEPT !.stack[Len(c.stack)] = f]

Push(c, f) == [c EXCEPT !.stack = Append(@, f)]

Pop(c) ==
  LET rest == SubSeq(c.stack, 1, Len(c.stack) - 1)
  IN [c EXCEPT !.stack = rest,
               !.status = IF rest = <<>> THEN "done" ELSE @]

Emit(c, toks) == [c EXCEPT !.out = @ \o toks]

\* An exception no generator of the chain catches: the call rejects.
Throw(c, msg) == [c EXCEPT !.status = "error", !.err = msg]

\* The frame of renderValue(value, childRenderer, renderInfo).
ValueFrame(v, cr) ==
  [kind |-> "value", pc |-> "start", value |-> v, cr |-> cr, idx |-> 0]

\* The frame of renderTemplateResult(result, childRenderer, claimedNodes,
\* renderInfo) and its locals: partIndex, distributedIndex, lastOffset; the
\* top-level nodes left (tops), the nodes of depthFirst(node) left (iter);
\* of handleNode: instance and the child renderer it built (newCr).
WalkFrame(v, cr, set, slot) ==
  [kind |-> "walk", pc |-> "getTemplate", strings |-> v.s, tpl |-> v.s,
   vals |-> v.items,
   cr |-> cr, set |-> set, slot |-> slot, owner |-> 0,
   tops |-> <<>>, iter |-> <<>>, sel |-> FALSE,
   partIndex |-> 0, distributedIndex |-> -1, lastOffset |-> 0,
   instance |-> 0, newCr |-> 0, log |-> <<>>]

\* render(value, childRenderer, flattened)
render(input) ==
  [input |-> input, status |-> "running", err |-> "", out |-> <<>>,
   flattened |-> input.flattened, instances |-> <<>>,
   sets |-> <<>>, crs |-> <<>>, objs |-> <<>>, walks |-> <<>>,
   parses |-> <<>>, after |-> {},
   stack |-> <<ValueFrame(input.value, 0)>>]

\* A call of render() that has not been made yet.
Idle(input) == [render(input) EXCEPT !.status = "idle"]

\* The second call is never made.
NotCalled == Idle([value |-> NothingV, flattened |-> FALSE])

Init ==
  /\ call \in {[r \in Calls |-> IF r = 1 THEN render(i) ELSE NotCalled] :
                i \in Inputs}
  /\ templateCache = {}
  /\ hydration = NoDocument

Running(r, kind, pc) ==
  /\ call[r].status = "running"
  /\ Top(call[r]).kind = kind
  /\ Top(call[r]).pc = pc

(***************************************************************************)
(* renderValue                                                             *)
(***************************************************************************)
\* The opening bracket marker of a value.
OpenMarker(v) ==
  IF isTemplateResult(v) THEN OpenPart(Digest(v)) ELSE OpenPart("")

\* value instanceof TemplateResult: the opening marker with the digest, then
\* the walk of the template with a new claimed-node set.
RenderValueTemplate(r) ==
  /\ Running(r, "value", "start")
  /\ isTemplateResult(Top(call[r]).value)
  /\ LET c == call[r]
         f == Top(c)
         c1 == [Emit(c, <<OpenMarker(f.value)>>) EXCEPT
                  !.sets = Append(@, {})]
         c2 == SetTop(c1, [f EXCEPT !.pc = "close"])
     IN call' = [call EXCEPT ![r] =
                   Push(c2, WalkFrame(f.value, f.cr, Len(c1.sets), NoSlot))]
  /\ UNCHANGED <<templateCache, hydration>>

ValueKindNoArray(v) ==
  IF v.k \in {"undefined", "null"} THEN "empty"
  ELSE IF v.k = "repeat" THEN "repeat"
  ELSE IF v.k = "renderLight" THEN "renderLight"
  ELSE IF v.k = "nothing" THEN "nothing"
  ELSE "string"

ValueKindNoNothing(v) ==
  IF v.k \in {"undefined", "null"} THEN "empty"
  ELSE IF v.k = "repeat" THEN "repeat"
  ELSE IF v.k = "renderLight" THEN "renderLight"
  ELSE IF v.k = "array" THEN "array"
  ELSE "string"

\* The branch of the dispatch a value that is no TemplateResult takes, the
\* tests in the order of the code.
ValueKind(v) ==
  IF v.k \in {"undefined", "null"} THEN "empty"
  ELSE IF v.k = "repeat" THEN "repeat"
  ELSE IF v.k = "renderLight" THEN "renderLight"
  ELSE IF v.k = "nothing" THEN "nothing"
  ELSE IF v.k = "array" THEN "array"
  ELSE "string"

\* Every other value: the opening marker, then by kind.
RenderValueOther(r) ==
  /\ Running(r, "value", "start")
  /\ ~isTemplateResult(Top(call[r]).value)
  /\ LET c == Emit(call[r], <<OpenMarker(Top(call[r]).value)>>)
         f == Top(c)
         v == f.value
         close == SetTop(c, [f EXCEPT !.pc = "close"])
     IN call' = [call EXCEPT ![r] =
          CASE ValueKind(v) = "empty" -> close
            [] ValueKind(v) = "repeat" ->
                 SetTop(c, [f EXCEPT !.pc = "repeat"])
            [] ValueKind(v) = "renderLight" ->
                 \* instances[instances.length - 1].instance
                 IF c.instances = <<>>
                 THEN Throw(c, "TypeError: instance is undefined")
                 ELSE IF c.instances[Len(c.instances)].instance # 0
                 THEN Push(close,
                        ValueFrame(
                          RenderLightOf(c.instances[Len(c.instances)].tagName),
                          f.cr))
                 ELSE close
            [] ValueKind(v) = "nothing" -> close
            [] ValueKind(v) = "array" ->
                 SetTop(c, [f EXCEPT !.pc = "items"])
            [] OTHER -> Emit(close, <<StrTok(String(v))>>)]
  /\ UNCHANGED <<templateCache, hydration>>

\* for (const item of value) yield* renderValue(item, ...)
RenderValueItem(r) ==
  /\ Running(r, "value", "items")
  /\ LET c == call[r]
         f == Top(c)
     IN call' = [call EXCEPT ![r] =
          IF f.idx < Len(f.value.items)
          THEN Push(SetTop(c, [f EXCEPT !.idx = @ + 1]),
                    ValueFrame(f.value.items[f.idx + 1], f.cr))
          ELSE SetTop(c, [f EXCEPT !.pc = "close"])]
  /\ UNCHANGED <<templateCache, hydration>>

\* The repeat directive's server renderer: renderValue of each item's
\* template.
RepeatItem(r) ==
  /\ Running(r, "value", "repeat")
  /\ LET c == call[r]
         f == Top(c)
     IN call' = [call EXCEPT ![r] =
          IF f.idx < Len(f.value.items)
          THEN Push(SetTop(c, [f EXCEPT !.idx = @ + 1]),
                    ValueFrame(f.value.items[f.idx + 1], f.cr))
          ELSE SetTop(c, [f EXCEPT !.pc = "close"])]
  /\ UNCHANGED <<templateCache, hydration>>

\* yield `<!--/lit-part-->`
RenderValueClose(r) ==
  /\ Running(r, "value", "close")
  /\ call' = [call EXCEPT ![r] = Pop(Emit(call[r], <<ClosePart>>))]
  /\ UNCHANGED <<templateCache, hydration>>

(***************************************************************************)
(* renderTemplateResult                                                    *)
(***************************************************************************)
\* getTemplate(result): the cached pair, else parse and cache.
\* result.getHTML() and parseFragment(html, {sourceCodeLocationInfo: true})
Parse(strings) ==
  [strings |-> strings, html |-> Html(strings),
   ast |-> TopNodes(Html(strings))]

CacheGetAny(cache, strings) == cache

\* templateCache.get(result.strings): the entries under the key, none for
\* undefined.
CacheGet(cache, strings) == {e \in cache : e.strings = strings}

CacheSetOnly(cache, strings, pair) == {pair}

\* templateCache.set(result.strings, {html, ast})
CacheSet(cache, strings, pair) ==
  {e \in cache : e.strings # strings} \cup {pair}

\* The template whose markup a string is.
MarkupId(html) == CHOOSE id \in TemplateIds : Html(id) = html

\* const {html, ast} = getTemplate(result): the walk goes over the pair
\* the cache returns, or over the new parse, which is cached.
GetTemplate(r) ==
  /\ Running(r, "walk", "getTemplate")
  /\ LET c == call[r]
         f == Top(c)
         hit == CacheGet(templateCache, f.strings)
         template == CHOOSE e \in hit : TRUE
     IN IF hit # {}
        THEN /\ templateCache' = templateCache
             /\ call' = [call EXCEPT ![r] =
                  SetTop(c, [f EXCEPT !.pc = "top",
                                      !.tpl = MarkupId(template.html),
                                      !.tops = template.ast])]
        ELSE /\ templateCache' =
                  CacheSet(templateCache, f.strings, Parse(f.strings))
             /\ call' = [call EXCEPT ![r] =
                  SetTop([c EXCEPT !.parses = Append(@, f.strings)],
                         [f EXCEPT !.pc = "top",
                                   !.tpl = MarkupId(Parse(f.strings).html),
                                   !.tops = Parse(f.strings).ast])]
  /\ UNCHANGED hydration

\* flushTo(offset): the markup from lastOffset to offset; lastOffset = offset.
flushTo(c, offset) ==
  LET f == Top(c)
  IN IF f.lastOffset = UndefOff THEN Throw(c, "lastOffset is undefined")
     ELSE Emit(SetTop(c, [f EXCEPT !.lastOffset = offset]),
               Substring(f.tpl, f.lastOffset, offset))

skipToNowhere(c, offset) == c

\* skipTo(offset)
skipTo(c, offset) == SetTop(c, [Top(c) EXCEPT !.lastOffset = offset])

RECURSIVE Traverse(_, _, _)
RECURSIVE TraverseAll(_, _, _)
\* traverse(node, {pre, post}): push an entry before an element's subtree,
\* pop it after.
Traverse(instances, h, i) ==
  LET pre == IF isElement(h, i)
             THEN Append(instances, [tagName |-> h[i].s, instance |-> 0])
             ELSE instances
      in == TraverseAll(pre, h, ChildNodes(h, i))
  IN IF isElement(h, i) /\ in # <<>>
     THEN SubSeq(in, 1, Len(in) - 1)
     ELSE in

\* The traversal of the children of a node, in order.
TraverseAll(instances, h, kids) ==
  IF kids = <<>> THEN instances
  ELSE TraverseAll(Traverse(instances, h, Head(kids)), h, Tail(kids))

\* The child renderer's part of a projection: a selected node is added to
\* the claimed-node set of the walk that built the renderer, before it is
\* walked.
Claim(c, f, node) ==
  IF f.owner = 0 THEN c
  ELSE [c EXCEPT !.sets[c.crs[f.owner].set] = @ \cup {node}]

\* One top-level node: the entry pushed for an element; for a projection
\* request the choice of the nodes to walk; else the walk of the node.
WalkTop(r) ==
  /\ Running(r, "walk", "top")
  /\ Top(call[r]).tops # <<>>
  /\ LET c0 == call[r]
         f == Top(c0)
         h == Html(f.tpl)
         node == Head(f.tops)
         c == IF isElement(h, node)
              THEN [c0 EXCEPT !.instances =
                      Append(@, [tagName |-> h[node].s, instance |-> 0])]
              ELSE c0
     IN call' = [call EXCEPT ![r] =
          IF f.slot # NoSlot
          THEN IF isElement(h, node)
               THEN IF getAttr(h, node, "slot") = f.slot
                    THEN SetTop(Claim(c, f, node),
                           [f EXCEPT !.pc = "node", !.sel = TRUE,
                                     !.lastOffset = StartOffset(h, node),
                                     !.iter = depthFirst(h, node)])
                    ELSE SetTop(c,
                           [f EXCEPT !.pc = "node", !.sel = FALSE,
                                     !.lastOffset = EndOffset(h, node),
                                     !.iter = <<>>])
               ELSE IF f.slot = Undef /\ isTextNode(h, node)
               THEN SetTop(c, [f EXCEPT !.pc = "node", !.sel = FALSE,
                                        !.iter = depthFirst(h, node)])
               ELSE SetTop(c, [f EXCEPT !.pc = "node", !.sel = FALSE,
                                        !.iter = <<>>])
          ELSE SetTop([c EXCEPT !.instances = Traverse(@, h, node)],
                      [f EXCEPT !.pc = "node", !.sel = FALSE,
                                !.iter = depthFirst(h, node)])]
  /\ UNCHANGED <<templateCache, hydration>>

\* After the nodes of one top-level node: the flush to the end of a node
\* walked for a projection request, and the pop of its entry.
EndTop(r) ==
  /\ Running(r, "walk", "node")
  /\ Top(call[r]).iter = <<>>
  /\ LET c0 == call[r]
         f0 == Top(c0)
         h == Html(f0.tpl)
         node == Head(f0.tops)
         c1 == IF f0.sel THEN flushTo(c0, EndOffset(h, node)) ELSE c0
         c2 == IF isElement(h, node) /\ c1.instances # <<>>
               THEN [c1 EXCEPT !.instances =
                       SubSeq(@, 1, Len(c1.instances) - 1)]
               ELSE c1
     IN call' = [call EXCEPT ![r] =
          IF c1.status = "error" THEN c1
          ELSE SetTop(c2, [Top(c2) EXCEPT !.pc = "top",
                                          !.tops = Tail(@)])]
  /\ UNCHANGED <<templateCache, hydration>>

\* partIndex <= distributedIndex: the part was consumed by the distribution
\* into a slot.
Distributed(partIndex, distributedIndex) == partIndex <= distributedIndex

\* The part markers of a value that is not rendered again.
PlaceholderNoClose(v) == <<OpenMarker(v)>>

Placeholder(v) == <<OpenMarker(v), ClosePart>>

\* handleNode of a marker comment.
HandleMarker(r) ==
  /\ Running(r, "walk", "node")
  /\ Top(call[r]).iter # <<>>
  /\ LET c0 == call[r]
         f0 == Top(c0)
         h == Html(f0.tpl)
         node == Head(f0.iter)
         c1 == skipTo(flushTo(c0, StartOffset(h, node)), EndOffset(h, node))
         f1 == Top(c1)
         value == ValueAt(f1.vals, f1.partIndex)
         partIndex == f1.partIndex + 1
         suppressed == Distributed(partIndex, f1.distributedIndex)
         f2 == [f1 EXCEPT !.partIndex = partIndex, !.iter = Tail(@),
                  !.log = Append(@,
                            [i |-> f1.partIndex,
                             how |-> IF suppressed THEN "placeholder"
                                     ELSE "rendered"])]
     IN /\ isCommentNode(h, node)
        /\ CommentData(h, node) = Marker
        /\ call' = [call EXCEPT ![r] =
             IF c1.status = "error" THEN c1
             ELSE IF suppressed
             THEN Emit(SetTop(c1, f2), Placeholder(value))
             ELSE Push(SetTop(c1, f2), ValueFrame(value, f1.cr))]
  /\ UNCHANGED <<templateCache, hydration>>

\* handleNode of a node that is neither a marker comment nor an element.
HandleText(r) ==
  /\ Running(r, "walk", "node")
  /\ Top(call[r]).iter # <<>>
  /\ LET c == call[r]
         f == Top(c)
         h == Html(f.tpl)
         node == Head(f.iter)
     IN /\ ~isElement(h, node)
        /\ ~(isCommentNode(h, node) /\ CommentData(h, node) = Marker)
        /\ call' = [call EXCEPT ![r] = SetTop(c, [f EXCEPT !.iter = Tail(@)])]
  /\ UNCHANGED <<templateCache, hydration>>

(***************************************************************************)
(* handleNode of an element                                                *)
(***************************************************************************)
RECURSIVE MarkerAttrs(_)
\* For each value of a template, in the order of its strings: the property
\* name the string before the value ends with (the first marker of a
\* property-form attribute), "<sliced>" for the first marker of another
\* attribute, undefined where the string before it names no attribute.
MarkerAttrs(h) ==
  IF h = <<>> THEN <<>>
  ELSE LET k == Head(h)
           n == CountMarkers(k.v)
       IN (CASE k.t \in {"battr", "pattr"} /\ n > 0 ->
                  <<IF k.t = "pattr" THEN k.s ELSE "<sliced>">>
                    \o [m \in 1..(n - 1) |-> Undef]
             [] k.t \in {"marker", "raw"} -> <<Undef>>
             [] OTHER -> <<>>)
          \o MarkerAttrs(Tail(h))

\* lastAttributeNameRegex.exec(result.strings[partIndex])![2].slice(1)
PropertyNameAt(h, partIndex) ==
  IF partIndex < Len(MarkerAttrs(h))
  THEN MarkerAttrs(h)[partIndex + 1]
  ELSE Undef

\* reflectedAttributeName(tagName, propertyName)
reflectedAttributeName(tagName, propertyName) ==
  IF tagName = "input" /\ propertyName = "value" THEN "value" ELSE Undef

\* The text a value takes inside an attribute value.
AttrString(v) == IF v.k = "classMap" THEN v.s ELSE String(v)

RECURSIVE ReplaceMarkers(_, _, _)
\* attr.value.replace(globalMarkerRegex, ...): each marker replaced by the
\* next value.  The pieces of the attribute value and the values consumed.
ReplaceMarkers(parts, vals, partIndex) ==
  IF parts = <<>> THEN [pieces |-> <<>>, used |-> 0]
  ELSE IF Head(parts) = Marker
    THEN LET rest == ReplaceMarkers(Tail(parts), vals, partIndex + 1)
         IN [pieces |-> <<AttrString(ValueAt(vals, partIndex))>>
                          \o rest.pieces,
             used |-> rest.used + 1]
    ELSE LET rest == ReplaceMarkers(Tail(parts), vals, partIndex)
         IN [pieces |-> <<Head(parts)>> \o rest.pieces, used |-> rest.used]

\* A property-form attribute (.name$lit$): one value, assigned to the
\* instance, and reflected where the property is a reflected one.
PropertyAttr(c, node, a) ==
  LET f == Top(c)
      h == Html(f.tpl)
      propertyName == PropertyNameAt(h, f.partIndex)
      value == ValueAt(f.vals, f.partIndex)
      f1 == [f EXCEPT !.partIndex = @ + 1,
               !.log = Append(@, [i |-> f.partIndex, how |-> "attribute"])]
      c1 == IF f.instance # 0
            THEN [c EXCEPT !.objs[f.instance].props =
                    @ \cup {<<propertyName, value>>}]
            ELSE c
      reflectedName == reflectedAttributeName(h[node].s, propertyName)
  IN IF propertyName = Undef
     THEN Throw(c, "TypeError: exec(...) is null")
     ELSE IF reflectedName # Undef
     THEN Emit(SetTop(c1, f1), <<AttrTok(reflectedName, <<String(value)>>)>>)
     ELSE SetTop(c1, f1)

\* Any other bound attribute: its name without the suffix and its raw value
\* with each marker replaced.
PlainAttr(c, a) ==
  LET f == Top(c)
      h == Html(f.tpl)
      rep == ReplaceMarkers(h[a].v, f.vals, f.partIndex)
      f1 == [f EXCEPT !.partIndex = @ + rep.used,
               !.log = @ \o [k \in 1..rep.used |->
                               [i |-> f.partIndex + k - 1,
                                how |-> "attribute"]]]
  IN Emit(SetTop(c, f1), <<AttrTok(h[a].s, rep.pieces)>>)

CountAttrAboveOne(boundAttrsCount) ==
  IF boundAttrsCount > 1 THEN <<CountTok(boundAttrsCount)>> ELSE <<>>

\* The hidden count attribute of a tag with bound attributes.
CountAttr(boundAttrsCount) ==
  IF boundAttrsCount > 0 THEN <<CountTok(boundAttrsCount)>> ELSE <<>>

\* The text of one bound attribute, by its form.
AttrValue(c, node, a) ==
  IF Html(Top(c).tpl)[a].t = "pattr" THEN PropertyAttr(c, node, a)
  ELSE PlainAttr(c, a)

\* One bound attribute, the token a: the markup up to the start of its name
\* (attrSourceLocation.startOffset), its text, and the skip to its end
\* (attrSourceLocation.endOffset).
BoundAttr(c, node, a) ==
  skipTo(AttrValue(Emit(c, Substring(Top(c).tpl, Top(c).lastOffset, a - 1)),
                   node, a),
         a)

RECURSIVE HandleAttrs(_, _, _, _)
\* for (const attr of node.attrs): the bound attributes in source order,
\* then the count attribute.
HandleAttrs(c, node, attrs, boundAttrsCount) ==
  IF c.status = "error" THEN c
  ELSE IF attrs = <<>> THEN Emit(c, CountAttr(boundAttrsCount))
  ELSE IF Html(Top(c).tpl)[Head(attrs)].t \in {"battr", "pattr"}
  THEN HandleAttrs(BoundAttr(c, node, Head(attrs)), node, Tail(attrs),
                   boundAttrsCount + 1)
  ELSE HandleAttrs(c, node, Tail(attrs), boundAttrsCount)

\* new LitHtmlChildRenderer(node.childNodes, html, result, partIndex,
\* claimedNodes)
ChildRenderer(f, node) ==
  [tpl |-> f.tpl, vals |-> f.vals, nodes |-> ChildNodes(Html(f.tpl), node),
   partIndex |-> f.partIndex, set |-> f.set,
   renderedPartIndex |-> f.partIndex, rendered |-> {}]

\* if (writeTag) yield flushTo(startTag.endOffset)
WriteTag(c, node, writeTag) ==
  IF writeTag /\ c.status # "error"
  THEN flushTo(c, StartTagEndOffset(Html(Top(c).tpl), node))
  ELSE c

\* renderer.renderElement(instance, childRenderer, renderInfo) with the
\* child renderer last built: the render of instance.render().
RenderElement(c, node) ==
  Push(SetTop(c, [Top(c) EXCEPT !.pc = "afterExpand", !.newCr = Len(c.crs)]),
       ValueFrame(RenderOf(Html(Top(c).tpl)[node].s), Len(c.crs)))

\* if (instance !== undefined): the child renderer and the expansion.
Expand(c, node) ==
  IF c.status = "error" THEN c
  ELSE IF Top(c).instance # 0
  THEN RenderElement(
         [c EXCEPT !.crs = Append(@, ChildRenderer(Top(c), node))], node)
  ELSE SetTop(c, [Top(c) EXCEPT !.iter = Tail(@)])

\* The rest of handleNode of an element that is not claimed: the
\* attributes, the start tag of a registered element, the expansion of an
\* instance.
FinishElement(c, node, writeTag) ==
  Expand(WriteTag(HandleAttrs(c, node, AttrIdxs(Html(Top(c).tpl), node), 0),
                  node, writeTag),
         node)

\* handleNode of an element in the claimed-node set.
HandleClaimed(r) ==
  /\ Running(r, "walk", "node")
  /\ Top(call[r]).iter # <<>>
  /\ LET c == call[r]
         f == Top(c)
         h == Html(f.tpl)
         node == Head(f.iter)
         c1 == skipTo(flushTo(c, StartOffset(h, node)), EndOffset(h, node))
     IN /\ isElement(h, node)
        /\ node \in c.sets[f.set]
        /\ call' = [call EXCEPT ![r] =
             IF c1.status = "error" THEN c1
             ELSE SetTop(c1, [Top(c1) EXCEPT !.iter = Tail(@)])]
  /\ UNCHANGED <<templateCache, hydration>>

\* childRenderer.renderChildren(slotName): the walk of the light children
\* of the component for one slot, from the part index the renderer was
\* built with.
RenderChildren(c, cr, slotName) ==
  LET k == c.crs[cr]
      c1 == [c EXCEPT !.sets = Append(@, {})]
  IN Push(c1,
       [WalkFrame(TemplateResult(k.tpl, k.vals), 0, Len(c1.sets), slotName)
          EXCEPT !.pc = "top", !.tops = k.nodes, !.owner = cr,
                 !.partIndex = k.partIndex])

\* handleNode of <slot> when flattening: the flush, the child renderer's
\* output for the slot, then the skip to the end of the element.
HandleSlot(r) ==
  /\ Running(r, "walk", "node")
  /\ Top(call[r]).iter # <<>>
  /\ LET c == call[r]
         f == Top(c)
         h == Html(f.tpl)
         node == Head(f.iter)
         \* flushTo(node.sourceCodeLocation.startTag.startOffset)
         c1 == flushTo(c, StartOffset(h, node))
         slotName == getAttr(h, node, "name")
     IN /\ isElement(h, node)
        /\ node \notin c.sets[f.set]
        /\ h[node].s = "slot" /\ c.flattened
        /\ call' = [call EXCEPT ![r] =
             IF c1.status = "error" THEN c1
             ELSE IF f.cr # 0
             THEN RenderChildren(
                    SetTop(c1, [Top(c1) EXCEPT !.pc = "afterSlot"]),
                    f.cr, slotName)
             ELSE FinishElement(skipTo(c1, EndOffset(h, node)), node, FALSE)]
  /\ UNCHANGED <<templateCache, hydration>>

\* After the child renderer's output: skipTo(endOffset), the attributes.
AfterSlot(r) ==
  /\ Running(r, "walk", "afterSlot")
  /\ LET c == call[r]
         f == Top(c)
         h == Html(f.tpl)
         node == Head(f.iter)
     IN call' = [call EXCEPT ![r] =
          FinishElement(
            skipTo(SetTop(c, [f EXCEPT !.pc = "node"]), EndOffset(h, node)),
            node, FALSE)]
  /\ UNCHANGED <<templateCache, hydration>>

ConstructUncaught(c, tagName) ==
  IF Ctor(tagName) = "throws"
  THEN Throw(c, "Exception in custom element constructor")
  ELSE SetTop([c EXCEPT !.objs =
                  Append(@, [tagName |-> tagName, props |-> {}])],
              [Top(c) EXCEPT !.instance = Len(c.objs) + 1])

\* new ctor(), and the instance recorded on the innermost entry of
\* renderInfo.instances; an exception of either is caught.
Construct(c, tagName) ==
  LET f == Top(c)
      c1 == [c EXCEPT !.objs = Append(@, [tagName |-> tagName, props |-> {}])]
      f1 == [f EXCEPT !.instance = Len(c1.objs)]
  IN IF Ctor(tagName) = "throws" THEN SetTop(c, [f EXCEPT !.instance = 0])
     ELSE IF c.instances = <<>> THEN SetTop(c1, f1)
     ELSE SetTop([c1 EXCEPT !.instances[Len(c.instances)].instance =
                    Len(c1.objs)], f1)

\* handleNode of any other element: the construction of a registered
\* custom element, then the attributes and the expansion.
HandleElement(r) ==
  /\ Running(r, "walk", "node")
  /\ Top(call[r]).iter # <<>>
  /\ LET c == call[r]
         f == Top(c)
         h == Html(f.tpl)
         node == Head(f.iter)
         tagName == h[node].s
         registered == HasDash(tagName) /\ Ctor(tagName) # "none"
         c1 == IF registered THEN Construct(c, tagName)
               ELSE SetTop(c, [f EXCEPT !.instance = 0])
     IN /\ isElement(h, node)
        /\ node \notin c.sets[f.set]
        /\ ~(tagName = "slot" /\ c.flattened)
        /\ call' = [call EXCEPT ![r] = FinishElement(c1, node, registered)]
  /\ UNCHANGED <<templateCache, hydration>>

\* After renderElement: distributedIndex = childRenderer.renderedPartIndex.
AfterExpand(r) ==
  /\ Running(r, "walk", "afterExpand")
  /\ LET c == call[r]
         f == Top(c)
     IN call' = [call EXCEPT ![r] =
          SetTop(c, [f EXCEPT !.pc = "node", !.iter = Tail(@),
                       !.distributedIndex =
                         c.crs[f.newCr].renderedPartIndex])]
  /\ UNCHANGED <<templateCache, hydration>>

\* The end of a walk for the child renderer: the highest part index
\* consumed is recorded on the renderer (rendered: the indexes of the values
\* the walk rendered).
ChildrenDone(r) ==
  /\ Running(r, "walk", "top")
  /\ Top(call[r]).tops = <<>>
  /\ Top(call[r]).owner # 0
  /\ LET c == call[r]
         f == Top(c)
     IN call' = [call EXCEPT ![r] =
          Pop([c EXCEPT !.crs[f.owner].renderedPartIndex =
                 Max(@, f.partIndex),
                        !.crs[f.owner].rendered =
                 @ \cup {f.log[j].i : j \in
                           {m \in 1 .. Len(f.log) :
                              f.log[m].how # "placeholder"}}])]
  /\ UNCHANGED <<templateCache, hydration>>

PartIndexFaultOnlyOver(partIndex, values) == partIndex > Len(values)

PartIndexFaultNever(partIndex, values) == FALSE

\* partIndex !== result.values.length
PartIndexFault(partIndex, values) == partIndex # Len(values)

\* After the traversal: the flush to the end of the markup and the check of
\* the part index.
WalkFinal(r) ==
  /\ Running(r, "walk", "top")
  /\ Top(call[r]).tops = <<>>
  /\ Top(call[r]).owner = 0
  /\ LET c == flushTo(call[r], UndefOff)
         f == Top(c)
     IN call' = [call EXCEPT ![r] =
          IF c.status = "error" THEN c
          ELSE IF PartIndexFault(f.partIndex, f.vals)
          THEN Throw(c, "unexpected final partIndex")
          ELSE Pop([c EXCEPT !.walks =
                      Append(@, [tpl |-> f.tpl, vals |-> f.vals,
                                 log |-> f.log])])]
  /\ UNCHANGED <<templateCache, hydration>>

Step(r) ==
  \/ RenderValueTemplate(r)
  \/ RenderValueOther(r)
  \/ RenderValueItem(r)
  \/ RepeatItem(r)
  \/ RenderValueClose(r)
  \/ GetTemplate(r)
  \/ WalkTop(r)
  \/ EndTop(r)
  \/ HandleMarker(r)
  \/ HandleText(r)
  \/ HandleClaimed(r)
  \/ HandleSlot(r)
  \/ AfterSlot(r)
  \/ HandleElement(r)
  \/ AfterExpand(r)
  \/ ChildrenDone(r)
  \/ WalkFinal(r)

Next == \E r \in Calls : Step(r)

Spec == Init /\ [][Next]_vars

(***************************************************************************)
(* Two calls of render() in one process.  Each is made at any time, its    *)
(* chunks are pulled in any interleaving with the other's, and its         *)
(* consumer may stop pulling at any point.                                 *)
(***************************************************************************)
PairInputs ==
  {[value |-> TemplateResult("hostVals",
                <<StrV("a"), TemplateResult("child", <<NothingV>>)>>),
    flattened |-> TRUE],
   [value |-> RepeatV(<<TemplateResult("child", <<StrV("a")>>)>>),
    flattened |-> FALSE],
   [value |-> ArrayV(<<TemplateResult("child", <<StrV("b")>>),
                       TemplateResult("child", <<StrV("b")>>)>>),
    flattened |-> FALSE],
   [value |-> RenderLightV, flattened |-> FALSE]}

InitPair ==
  /\ call \in [Calls -> {Idle(i) : i \in PairInputs}]
  /\ templateCache = {}
  /\ hydration = NoDocument

StartOnSharedStack(r) ==
  /\ call[r].status = "idle"
  /\ call' = [call EXCEPT ![r] =
       [@ EXCEPT !.status = "running",
                 !.after = {q \in Calls : call[q].status = "abandoned"},
                 !.instances = call[3 - r].instances]]
  /\ UNCHANGED <<templateCache, hydration>>

\* render(value, childRenderer, flattened) is called.  The calls whose
\* consumer had stopped before are noted.
Start(r) ==
  /\ call[r].status = "idle"
  /\ call' = [call EXCEPT ![r] =
       [@ EXCEPT !.status = "running",
                 !.after = {q \in Calls : call[q].status = "abandoned"}]]
  /\ UNCHANGED <<templateCache, hydration>>

\* The consumer stops pulling: the generator is never resumed.
Abandon(r) ==
  /\ call[r].status = "running"
  /\ call' = [call EXCEPT ![r] = [@ EXCEPT !.status = "abandoned"]]
  /\ UNCHANGED <<templateCache, hydration>>

NextPair == \E r \in Calls : Start(r) \/ Abandon(r) \/ Step(r)

SpecPair == InitPair /\ [][NextPair]_vars

(***************************************************************************)
(* template-shadowroot.ts: hydrateShadowRoots(root).  The document is a    *)
(* tree of elements: node 0 is an element with no parent, every other node *)
(* is a DIV or a TEMPLATE whose shadowroot attribute is 'open', 'closed'   *)
(* or another word.  The children a parser reads inside a TEMPLATE are in  *)
(* its content fragment.  Only element navigation is used by the code, so  *)
(* text nodes are left out.                                                *)
(***************************************************************************)
MaxNodes == 4

Nodes == 0 .. MaxNodes

\* Node references: an Element, the DocumentFragment template.content of a
\* template, null; and the undefined of the local `template`.
Null == [type |-> "null", id |-> 0]

Element(n) == [type |-> "element", id |-> n]

Fragment(t) == [type |-> "fragment", id |-> t]

NoTemplate == [type |-> "undefined", id |-> 0]

NodeKinds ==
  {[tagName |-> "DIV", shadowroot |-> "null"],
   [tagName |-> "TEMPLATE", shadowroot |-> "open"],
   [tagName |-> "TEMPLATE", shadowroot |-> "closed"],
   [tagName |-> "TEMPLATE", shadowroot |-> "auto"]}

\* The nodes whose parent is p, in document order.
RECURSIVE ChildrenFrom(_, _, _)
ChildrenFrom(par, p, n) ==
  IF n > MaxNodes THEN <<>>
  ELSE (IF par[n] = p THEN <<n>> ELSE <<>>) \o ChildrenFrom(par, p, n + 1)

\* The document a parser builds: kind[n] is the tag of node n and par[n] the
\* node it was read in; the children read in a TEMPLATE are its content.
Document(kind, par) ==
  [tagName |-> [n \in Nodes |-> IF n = 0 THEN "DIV" ELSE kind[n].tagName],
   shadowroot |->
     [n \in Nodes |-> IF n = 0 THEN "null" ELSE kind[n].shadowroot],
   childNodes |->
     [n \in Nodes |->
        IF n = 0 \/ kind[n].tagName = "DIV" THEN ChildrenFrom(par, n, 1)
        ELSE <<>>],
   content |->
     [n \in Nodes |->
        IF n # 0 /\ kind[n].tagName = "TEMPLATE"
        THEN ChildrenFrom(par, n, 1) ELSE <<>>],
   shadowRoot |-> [n \in Nodes |-> <<>>],
   mode |-> [n \in Nodes |-> "none"]]

Documents ==
  {Document(kind, par) :
     kind \in [1 .. MaxNodes -> NodeKinds],
     par \in {p \in [1 .. MaxNodes -> Nodes] :
                \A n \in 1 .. MaxNodes : p[n] < n}}

Has(s, n) == \E i \in 1 .. Len(s) : s[i] = n

\* The list of element children a node is in: of an element, of a template's
\* content or of a shadow root; the node alone when it is in none.
Siblings(h, n) ==
  IF \E p \in Nodes : Has(h.childNodes[p], n)
  THEN h.childNodes[CHOOSE p \in Nodes : Has(h.childNodes[p], n)]
  ELSE IF \E p \in Nodes : Has(h.content[p], n)
  THEN h.content[CHOOSE p \in Nodes : Has(h.content[p], n)]
  ELSE IF \E p \in Nodes : Has(h.shadowRoot[p], n)
  THEN h.shadowRoot[CHOOSE p \in Nodes : Has(h.shadowRoot[p], n)]
  ELSE <<n>>

\* node.parentElement: null unless the parent node is an element.
parentElement(h, ref) ==
  IF ref.type = "element" /\ \E p \in Nodes : Has(h.childNodes[p], ref.id)
  THEN Element(CHOOSE p \in Nodes : Has(h.childNodes[p], ref.id))
  ELSE Null

\* node.firstElementChild
firstElementChild(h, ref) ==
  LET s == IF ref.type = "element" THEN h.childNodes[ref.id]
           ELSE IF ref.type = "fragment" THEN h.content[ref.id]
           ELSE <<>>
  IN IF s = <<>> THEN Null ELSE Element(s[1])

\* node.nextElementSibling: a DocumentFragment has none.
nextElementSibling(h, ref) ==
  IF ref.type # "element" THEN Null
  ELSE LET s == Siblings(h, ref.id)
           i == CHOOSE k \in 1 .. Len(s) : s[k] = ref.id
       IN IF i < Len(s) THEN Element(s[i + 1]) ELSE Null

hasNoParentElement(h, e) == parentElement(h, e) = Null

isTemplateElement(h, e) ==
  e.type = "element" /\ h.tagName[e.id] = "TEMPLATE"

isElementNode(e) == e.type = "element"

\* if (hasNative === undefined) {...} return hasNative
hasNativeDeclarativeShadowRoots(h) == h.hasNative

\* hydrateShadowRoots(root) is called on a document.
hydrateShadowRoots(doc, root, native) ==
  [status |-> "called", hasNative |-> native, root |-> root,
   tagName |-> doc.tagName, shadowroot |-> doc.shadowroot,
   childNodes |-> doc.childNodes, content |-> doc.content,
   shadowRoot |-> doc.shadowRoot, mode |-> doc.mode,
   before |-> doc,
   currentNode |-> Null, templateStack |-> <<>>, template |-> NoTemplate,
   attached |-> <<>>, threw |-> {}, removed |-> {}, visited |-> {},
   pushed |-> <<>>, popped |-> <<>>]

\* The roots of the calls: the top element, or its first child, which has a
\* parent and may have following siblings.
Roots(doc) ==
  {0} \cup {n \in {1} : doc.tagName[n] = "DIV"}

InitHydrate ==
  /\ call = [r \in Calls |-> NotCalled]
  /\ templateCache = {}
  /\ hydration \in
       UNION {{hydrateShadowRoots(doc, root, native) :
                 root \in Roots(doc), native \in BOOLEAN} :
              doc \in Documents}

\* while (currentNode !== root && currentNode !== null)
InLoop(h) == h.currentNode # Element(h.root) /\ h.currentNode # Null

\* currentNode = ...
MoveTo(h, ref) ==
  [h EXCEPT !.currentNode = ref, !.visited = @ \cup {ref}]

\* A TypeError leaves hydrateShadowRoots.
Fail(h) == [h EXCEPT !.status = "threw"]

WithoutNode(s, n) == SelectSeq(s, LAMBDA x : x # n)

\* template.parentElement!.removeChild(template)
removeChild(h, template) ==
  LET parent == parentElement(h, template)
  IN IF parent = Null THEN Fail(h)
     ELSE [h EXCEPT !.childNodes[parent.id] = WithoutNode(@, template.id),
                    !.removed = @ \cup {template.id}]

\* if (template !== undefined) template.parentElement!.removeChild(template)
removeHydrated(h) ==
  IF h.template # NoTemplate THEN removeChild(h, h.template) ELSE h

\* host.attachShadow({mode, delegatesFocus}) throws on a host that has a
\* shadow root already, and on null.
attachThrows(h, host) == host = Null \/ h.mode[host.id] # "none"

\* The templates with shadowroot 'open' or 'closed' in a list of element
\* children and below, through children, contents and shadow roots, whose
\* content was not attached.
RECURSIVE Unhydrated(_, _, _)
Unhydrated(h, s, fuel) ==
  IF fuel = 0 THEN {}
  ELSE UNION {
    (IF /\ h.tagName[s[i]] = "TEMPLATE"
        /\ h.shadowroot[s[i]] \in {"open", "closed"}
        /\ ~ \E k \in 1 .. Len(h.attached) : h.attached[k].template = s[i]
     THEN {s[i]} ELSE {})
    \cup Unhydrated(h, h.childNodes[s[i]], fuel - 1)
    \cup Unhydrated(h, h.content[s[i]], fuel - 1)
    \cup Unhydrated(h, h.shadowRoot[s[i]], fuel - 1) : i \in 1 .. Len(s)}

\* const shadow = host.attachShadow({mode, delegatesFocus});
\* shadow.append(template.content)
attachShadow(h, host, template, mode) ==
  [h EXCEPT !.mode[host.id] = mode,
            !.shadowRoot[host.id] = h.content[template.id],
            !.content[template.id] = <<>>,
            !.attached = Append(@,
               [template |-> template.id, host |-> host.id,
                inside |-> Unhydrated(h, h.content[template.id],
                                      MaxNodes + 1)])]

\* if (hasNativeDeclarativeShadowRoots()) return
ReturnNative ==
  /\ hydration.status = "called"
  /\ hasNativeDeclarativeShadowRoots(hydration)
  /\ hydration' = [hydration EXCEPT !.status = "returned"]
  /\ UNCHANGED <<call, templateCache>>

\* const templateStack = []; let currentNode = root.firstElementChild
Enter ==
  /\ hydration.status = "called"
  /\ ~ hasNativeDeclarativeShadowRoots(hydration)
  /\ hydration' =
       [MoveTo(hydration,
               firstElementChild(hydration, Element(hydration.root)))
          EXCEPT !.status = "outer", !.templateStack = <<>>]
  /\ UNCHANGED <<call, templateCache>>

\* The outer loop ends and hydrateShadowRoots returns.
Return ==
  /\ hydration.status = "outer"
  /\ ~ InLoop(hydration)
  /\ hydration' = [hydration EXCEPT !.status = "returned"]
  /\ UNCHANGED <<call, templateCache>>

\* if (isTemplate(currentNode)): push it, go to its content.
DescendContent ==
  /\ hydration.status = "outer"
  /\ InLoop(hydration)
  /\ isTemplateElement(hydration, hydration.currentNode)
  /\ hydration' =
       [MoveTo(hydration, Fragment(hydration.currentNode.id))
          EXCEPT !.templateStack = Append(@, hydration.currentNode.id),
                 !.pushed = Append(@, hydration.currentNode.id)]
  /\ UNCHANGED <<call, templateCache>>

\* else if (currentNode.firstElementChild !== null): traverse down.
DescendChild ==
  /\ hydration.status = "outer"
  /\ InLoop(hydration)
  /\ ~ isTemplateElement(hydration, hydration.currentNode)
  /\ firstElementChild(hydration, hydration.currentNode) # Null
  /\ hydration' =
       MoveTo(hydration, firstElementChild(hydration, hydration.currentNode))
  /\ UNCHANGED <<call, templateCache>>

\* else if (isElement(currentNode) && currentNode.nextElementSibling !== null)
SiblingOfEmpty ==
  /\ hydration.status = "outer"
  /\ InLoop(hydration)
  /\ ~ isTemplateElement(hydration, hydration.currentNode)
  /\ firstElementChild(hydration, hydration.currentNode) = Null
  /\ isElementNode(hydration.currentNode)
  /\ nextElementSibling(hydration, hydration.currentNode) # Null
  /\ hydration' =
       MoveTo(hydration, nextElementSibling(hydration, hydration.currentNode))
  /\ UNCHANGED <<call, templateCache>>

\* else: let template; the inner loop is entered.
Ascend ==
  /\ hydration.status = "outer"
  /\ InLoop(hydration)
  /\ ~ isTemplateElement(hydration, hydration.currentNode)
  /\ firstElementChild(hydration, hydration.currentNode) = Null
  /\ ~ (/\ isElementNode(hydration.currentNode)
        /\ nextElementSibling(hydration, hydration.currentNode) # Null)
  /\ hydration' = [hydration EXCEPT !.status = "inner",
                                    !.template = NoTemplate]
  /\ UNCHANGED <<call, templateCache>>

\* The inner loop ends on its condition.
InnerDone ==
  /\ hydration.status = "inner"
  /\ ~ InLoop(hydration)
  /\ hydration' = [hydration EXCEPT !.status = "outer"]
  /\ UNCHANGED <<call, templateCache>>

AfterPopKept(stack) == stack

\* templateStack.pop(): the stack without its last element.
AfterPop(stack) == SubSeq(stack, 1, Len(stack) - 1)

\* if (hasNoParentElement(currentNode)): the template on top of the stack is
\* popped and, when its mode is 'open' or 'closed', hydrated; an exception
\* of attachShadow is caught.
HydrateTemplate ==
  /\ hydration.status = "inner"
  /\ InLoop(hydration)
  /\ hasNoParentElement(hydration, hydration.currentNode)
  /\ LET h == hydration
         n == Len(h.templateStack)
     IN IF n = 0 THEN hydration' = Fail(h)
        ELSE LET template == Element(h.templateStack[n])
                 host == parentElement(h, template)
                 mode == h.shadowroot[template.id]
                 h1 == [MoveTo(h, template) EXCEPT
                          !.templateStack = AfterPop(@),
                          !.popped = Append(@, template.id),
                          !.template = template]
             IN hydration' =
                  IF mode \in {"open", "closed"}
                  THEN IF attachThrows(h1, host)
                       THEN [h1 EXCEPT !.threw = @ \cup {template.id}]
                       ELSE attachShadow(h1, host, template, mode)
                  ELSE [h1 EXCEPT !.template = NoTemplate]
  /\ UNCHANGED <<call, templateCache>>

\* if (nextSibling != null): go there, remove the hydrated template, break.
ToNextSibling ==
  /\ hydration.status = "inner"
  /\ InLoop(hydration)
  /\ ~ hasNoParentElement(hydration, hydration.currentNode)
  /\ nextElementSibling(hydration, hydration.currentNode) # Null
  /\ LET h1 == MoveTo(hydration,
                  nextElementSibling(hydration, hydration.currentNode))
         h2 == removeHydrated(h1)
     IN hydration' =
          IF h2.status = "threw" THEN h2 ELSE [h2 EXCEPT !.status = "outer"]
  /\ UNCHANGED <<call, templateCache>>

\* if (nextAunt != null): go there, remove the hydrated template, break.
ToNextAunt ==
  /\ hydration.status = "inner"
  /\ InLoop(hydration)
  /\ ~ hasNoParentElement(hydration, hydration.currentNode)
  /\ nextElementSibling(hydration, hydration.currentNode) = Null
  /\ nextElementSibling(hydration,
        parentElement(hydration, hydration.currentNode)) # Null
  /\ LET h1 == MoveTo(hydration,
                  nextElementSibling(hydration,
                     parentElement(hydration, hydration.currentNode)))
         h2 == removeHydrated(h1)
     IN hydration' =
          IF h2.status = "threw" THEN h2 ELSE [h2 EXCEPT !.status = "outer"]
  /\ UNCHANGED <<call, templateCache>>

\* currentNode = currentNode.parentElement; the hydrated template is removed
\* and forgotten.
ToParent ==
  /\ hydration.status = "inner"
  /\ InLoop(hydration)
  /\ ~ hasNoParentElement(hydration, hydration.currentNode)
  /\ nextElementSibling(hydration, hydration.currentNode) = Null
  /\ nextElementSibling(hydration,
        parentElement(hydration, hydration.currentNode)) = Null
  /\ LET h1 == MoveTo(hydration,
                  parentElement(hydration, hydration.currentNode))
         h2 == removeHydrated(h1)
     IN hydration' =
          IF h2.status = "threw" THEN h2 ELSE [h2 EXCEPT !.template = NoTemplate]
  /\ UNCHANGED <<call, templateCache>>

NextHydrate ==
  \/ ReturnNative
  \/ Enter
  \/ Return
  \/ DescendContent
  \/ DescendChild
  \/ SiblingOfEmpty
  \/ Ascend
  \/ InnerDone
  \/ HydrateTemplate
  \/ ToNextSibling
  \/ ToNextAunt
  \/ ToParent

SpecHydrate == InitHydrate /\ [][NextHydrate]_vars

\* hydrateShadowRoots is synchronous code: once called it runs on until it
\* returns or throws.
LiveHydrate == SpecHydrate /\ WF_vars(NextHydrate)

\* ---------------------------------------------------------------------
\* Properties of the output.

\* Opening markers minus closing markers among the first k tokens.
RECURSIVE Depth(_, _)
Depth(out, k) ==
  IF k = 0 THEN 0
  ELSE Depth(out, k - 1)
       + (IF out[k].t = "open" THEN 1 ELSE IF out[k].t = "close" THEN -1
          ELSE 0)

CountType(out, t) == Cardinality({k \in 1..Len(out) : out[k].t = t})

HowsOf(log) == {log[k].how : k \in 1..Len(log)}

\* C1 (marker balance): in the chunk sequence of a render no closing bracket
\* marker comes before its opening one (every prefix has at least as many
\* openings as closings, placeholder pairs included), and a render that
\* has completed has produced exactly as many openings as closings.
C1_MarkerBalance ==
  \A r \in Calls :
    /\ \A k \in 0..Len(call[r].out) : Depth(call[r].out, k) >= 0
    /\ call[r].status = "done" => Depth(call[r].out, Len(call[r].out)) = 0

\* A completed render with nested pairs and a placeholder pair.
C1_Witness ==
  \E r \in Calls :
    /\ call[r].status = "done"
    /\ CountType(call[r].out, "open") >= 4
    /\ \E k \in 1..Len(call[r].walks) :
         "placeholder" \in HowsOf(call[r].walks[k].log)

AtFinal(r) ==
  /\ Running(r, "walk", "top")
  /\ Top(call[r]).tops = <<>>
  /\ Top(call[r]).owner = 0

\* C3 (consistency fault is fatal): a walk that ends with a part index
\* different from the number of values raises an error instead of
\* completing, the error is not caught anywhere in the renderer, so the
\* render ends in the error state, never completes and produces no chunk
\* after the fault.
C3_FaultIsFatal ==
  [][\A r \in Calls :
       /\ (AtFinal(r) /\ Top(call[r]).partIndex # Len(Top(call[r]).vals))
            => /\ call'[r].status = "error"
               /\ call'[r].err = "unexpected final partIndex"
       /\ call[r].status = "error" => call'[r] = call[r]
       /\ call'[r].status = "done"
            => ~(AtFinal(r)
                 /\ Top(call[r]).partIndex # Len(Top(call[r]).vals))]_vars

\* A render that has ended with the part-index fault after handing chunks
\* to the consumer.
C3_Witness ==
  \E r \in Calls :
    /\ call[r].status = "error"
    /\ call[r].err = "unexpected final partIndex"
    /\ Len(call[r].out) > 0

\* The positions of a token in the output.
Positions(out, tok) == {k \in 1..Len(out) : out[k] = tok}

\* The names of the slots in the template a component renders.
SlotNames(tag) ==
  {getAttr(Html(RenderOf(tag).s), n, "name") :
     n \in {m \in NodeIds(Html(RenderOf(tag).s)) :
              /\ isElement(Html(RenderOf(tag).s), m)
              /\ Html(RenderOf(tag).s)[m].s = "slot"}}

\* The index of the slot element with this name in the component template.
SlotNode(tag, name) ==
  CHOOSE m \in NodeIds(Html(RenderOf(tag).s)) :
    /\ isElement(Html(RenderOf(tag).s), m)
    /\ Html(RenderOf(tag).s)[m].s = "slot"
    /\ getAttr(Html(RenderOf(tag).s), m, "name") = name

\* The registered component elements of a template.
Hosts(h) == {n \in NodeIds(h) : isElement(h, n) /\ Ctor(h[n].s) = "ok"}

\* The element children of a node whose markup holds no marker.
StaticChildren(h, n) ==
  {ch \in NodeIds(h) :
     /\ \E k \in 1..Len(ChildNodes(h, n)) : ChildNodes(h, n)[k] = ch
     /\ isElement(h, ch)
     /\ \A i \in ch..EndIdx(h, ch) :
          h[i].t \notin {"marker", "raw", "battr", "pattr"}}

\* The token of template T at index i lies in the output exactly once, at
\* the place of the slot: between the component's markup before the slot
\* element and the component's markup after it.
OnceAtSlot(out, T, i, ct, slot) ==
  /\ Cardinality(Positions(out, Lit(T, i))) = 1
  /\ \A p \in Positions(out, Lit(T, i)) :
       /\ \E a \in 1..(p - 1) : out[a] = Lit(ct, slot - 1)
       /\ \E b \in (p + 1)..Len(out) :
            out[b] = Lit(ct, EndIdx(Html(ct), slot) + 1)

\* The statement of C4 for the light child ch of the component element n
\* of template T.
SlotExclusive(out, T, n, ch) ==
  IF getAttr(Html(T), ch, "slot") \in SlotNames(Html(T)[n].s)
  THEN \A i \in ch..EndIdx(Html(T), ch) :
         OnceAtSlot(out, T, i, RenderOf(Html(T)[n].s).s,
                    SlotNode(Html(T)[n].s, getAttr(Html(T), ch, "slot")))
  ELSE \A i \in ch..EndIdx(Html(T), ch) : Positions(out, Lit(T, i)) = {}

\* C4 (slot exclusivity): in a completed flattened render of a template
\* with a component whose template has a slot named x, a light child with
\* slot="x" is in the output exactly once, at the place of the slot, and
\* a light child whose slot attribute names no slot of the component is
\* nowhere in the output.
C4_SlotExclusivity ==
  \A r \in Calls :
    (/\ call[r].status = "done"
     /\ call[r].flattened
     /\ isTemplateResult(call[r].input.value))
    => \A n \in Hosts(Html(call[r].input.value.s)) :
         \A ch \in StaticChildren(Html(call[r].input.value.s), n) :
           SlotExclusive(call[r].out, call[r].input.value.s, n, ch)

\* The tokens of the claimed nodes of the walk of the input template: the
\* claimed set of that walk is the first one the call allocates.
ClaimedSpan(c) ==
  UNION {n..EndIdx(Html(c.input.value.s), n) : n \in c.sets[1]}

\* C5 (at most once): in a completed render of a template the markup of a
\* node in the claimed set is in the output at most once: what the
\* distribution rendered; the later visits of the node and of its
\* descendants by the outer traversal emit none of it.
C5_ClaimedAtMostOnce ==
  \A r \in Calls :
    (/\ call[r].status = "done"
     /\ isTemplateResult(call[r].input.value)
     /\ Len(call[r].sets) >= 1)
    => \A i \in ClaimedSpan(call[r]) :
         Cardinality(Positions(call[r].out, Lit(call[r].input.value.s, i)))
           <= 1

\* The next step of the call is the attribute handling of the element at
\* the head of the traversal of the innermost walk.
HandlesAttrs(r) ==
  \/ /\ Running(r, "walk", "node")
     /\ Top(call[r]).iter # <<>>
     /\ isElement(Html(Top(call[r]).tpl), Head(Top(call[r]).iter))
     /\ Head(Top(call[r]).iter) \notin call[r].sets[Top(call[r]).set]
     /\ ~(/\ Html(Top(call[r]).tpl)[Head(Top(call[r]).iter)].s = "slot"
          /\ call[r].flattened
          /\ Top(call[r]).cr # 0)
  \/ Running(r, "walk", "afterSlot")

\* The chunks a step hands to the consumer.
NewOut(r) ==
  SubSeq(call'[r].out, Len(call[r].out) + 1, Len(call'[r].out))

\* The bound attributes of an element, by token index.
BoundAttrs(h, node) ==
  {a \in (node + 1)..(StartTagEndIdx(h, node) - 1) :
     h[a].t \in {"battr", "pattr"}}

StaticAttrs(h, node) ==
  {a \in (node + 1)..(StartTagEndIdx(h, node) - 1) : h[a].t = "sattr"}

\* The name under which a bound attribute is written, undefined for a
\* property that is not reflected.
WrittenName(h, node, a) ==
  IF h[a].t = "pattr" THEN reflectedAttributeName(h[node].s, h[a].s)
  ELSE h[a].s

\* The count attribute in the chunks new of the handling of an element
\* with the bound attributes B: absent when B is empty, else once, with
\* the number of elements of B, straight after the text of the last
\* attribute of B and with literal markup only after it.
CountAfterLastBound(new, h, node, B) ==
  IF B = {}
  THEN \A p \in 1..Len(new) : new[p].t # "count"
  ELSE \E p \in 1..Len(new) :
         /\ new[p] = CountTok(Cardinality(B))
         /\ \A q \in 1..Len(new) : new[q].t = "count" => q = p
         /\ \A q \in (p + 1)..Len(new) : new[q].t = "lit"
         /\ \A a \in B :
              ((\A b \in B : b <= a) /\ WrittenName(h, node, a) # Undef)
              => /\ p > 1
                 /\ new[p - 1].t = "attr"
                 /\ new[p - 1].s = WrittenName(h, node, a)

Strip(out) == SelectSeq(out, LAMBDA o : o.t \notin {"open", "close", "count"})

RECURSIVE Fill(_, _, _)
\* The pieces of an attribute value with each marker replaced by the next
\* stringified value, from the value with index k (counted from 0).
Fill(parts, vals, k) ==
  IF parts = <<>> THEN <<>>
  ELSE IF Head(parts) = Marker
    THEN <<String(vals[k + 1])>> \o Fill(Tail(parts), vals, k + 1)
    ELSE <<Head(parts)>> \o Fill(Tail(parts), vals, k)

RECURSIVE Interleave(_, _, _, _)
\* The literal strings of template T from token i on, interleaved with the
\* stringified values from index k on: each marker, in document order,
\* replaced by the next value.
Interleave(T, i, vals, k) ==
  IF i > Len(Html(T)) THEN <<>>
  ELSE IF Html(T)[i].t \in {"marker", "raw"}
    THEN <<StrTok(String(vals[k + 1]))>> \o Interleave(T, i + 1, vals, k + 1)
  ELSE IF Html(T)[i].t = "battr"
    THEN <<AttrTok(Html(T)[i].s, Fill(Html(T)[i].v, vals, k))>>
         \o Interleave(T, i + 1, vals, k + CountMarkers(Html(T)[i].v))
  ELSE <<Lit(T, i)>> \o Interleave(T, i + 1, vals, k)

\* A template of plain markup: no property-form attribute, no registered
\* component element and, when flattening, no slot element.
PlainMarkup(T, flattened) ==
  /\ \A i \in 1..Len(Html(T)) : Html(T)[i].t # "pattr"
  /\ Hosts(Html(T)) = {}
  /\ flattened => \A i \in 1..Len(Html(T)) :
                    ~(Html(T)[i].t = "open" /\ Html(T)[i].s = "slot")

AllStrings(vals) == \A k \in 1..Len(vals) : vals[k].k = "str"

Markup(T) == [k \in 1..Len(Html(T)) |-> Lit(T, k)]

\* A template of literal markup only: plain markup without values.
LiteralOnly(T, flattened) == NumValues(T) = 0 /\ PlainMarkup(T, flattened)

\* C8 (literal passthrough): a completed render of a template that has no
\* values, no registered component element and, when flattening, no slot
\* element gives the template's markup unchanged between the one pair of
\* bracket markers of the value, with no bracket marker inside it.
C8_LiteralPassthrough ==
  \A r \in Calls :
    (/\ call[r].status = "done"
     /\ isTemplateResult(call[r].input.value)
     /\ LiteralOnly(call[r].input.value.s, call[r].flattened))
    => call[r].out
         = <<OpenPart(Digest(call[r].input.value))>>
           \o Markup(call[r].input.value.s) \o <<ClosePart>>

\* The completed render of <p id="s">text</p>.
C8_Witness ==
  \E r \in Calls :
    /\ call[r].status = "done"
    /\ call[r].input.value = TemplateResult("plain", <<>>)
    /\ Len(call[r].out) = Len(Html("plain")) + 2

\* C8 as stated: every template without values is reproduced unchanged.
C8_AnyTemplateWithoutValues ==
  \A r \in Calls :
    (/\ call[r].status = "done"
     /\ isTemplateResult(call[r].input.value)
     /\ NumValues(call[r].input.value.s) = 0)
    => call[r].out
         = <<OpenPart(Digest(call[r].input.value))>>
           \o Markup(call[r].input.value.s) \o <<ClosePart>>

\* The positions of the opening markers with d markers open around them,
\* in output order.
OpensAt(out, d) ==
  Ascending({p \in 1..Len(out) :
               out[p].t = "open" /\ Depth(out, p - 1) = d})

\* The element pairs of an array's output: one pair for the array, and
\* inside it, at depth one, one pair per element in the order of the
\* elements, a string element's pair holding the string and nothing else.
ArrayPairs(out, items) ==
  /\ Len(OpensAt(out, 0)) = 1
  /\ out[1] = OpenPart("")
  /\ out[Len(out)] = ClosePart
  /\ Len(OpensAt(out, 1)) = Len(items)
  /\ \A j \in 1..Len(items) :
       /\ out[OpensAt(out, 1)[j]] = OpenMarker(items[j])
       /\ items[j].k = "str"
            => /\ out[OpensAt(out, 1)[j] + 1] = StrTok(items[j].s)
               /\ out[OpensAt(out, 1)[j] + 2] = ClosePart

\* C9 (array brackets): a completed render of an array of k elements
\* gives one pair of bracket markers for the array as a whole and, inside
\* that pair, the k pairs of the elements in the order of the elements,
\* each element in a pair of its own.
C9_ArrayPairs ==
  \A r \in Calls :
    (call[r].status = "done" /\ call[r].input.value.k = "array")
    => ArrayPairs(call[r].out, call[r].input.value.items)

\* The completed render of an array of two different elements.
C9_Witness ==
  \E r \in Calls :
    /\ call[r].status = "done"
    /\ call[r].input.value.k = "array"
    /\ Len(call[r].input.value.items) = 2
    /\ call[r].input.value.items[1] # call[r].input.value.items[2]

\* C9 as stated: the output of an array of k elements has the k pairs of
\* the elements and no pair around them.
C9_NoEnclosingPair ==
  \A r \in Calls :
    (call[r].status = "done" /\ call[r].input.value.k = "array")
    => /\ Len(OpensAt(call[r].out, 0)) = Len(call[r].input.value.items)
       /\ AllStrings(call[r].input.value.items)
            => CountType(call[r].out, "open")
                 = Len(call[r].input.value.items)

Empties == {NothingV, UndefinedV, NullV}

\* C10 (empty values): a completed render of nothing, of undefined and of
\* null gives one opening and one closing bracket marker and nothing
\* between them, the same output in the three cases, at the top level and
\* as the value of a child marker.
C10_EmptyValues ==
  \A r \in Calls :
    call[r].status = "done"
    => /\ call[r].input.value \in Empties
            => call[r].out = <<OpenPart(""), ClosePart>>
       /\ (/\ isTemplateResult(call[r].input.value)
           /\ call[r].input.value.s = "child"
           /\ call[r].input.value.items[1] \in Empties)
            => call[r].out
                 = <<OpenPart("child"), OpenPart(""), ClosePart, ClosePart>>

\* The completed render of nothing.
C10_Witness ==
  \E r \in Calls :
    /\ call[r].status = "done"
    /\ call[r].input.value = NothingV
    /\ Len(call[r].out) = 2

\* The output of the template "bad" up to the end of the element whose
\* constructor throws: the tag as a plain element, its plain bound
\* attribute resolved, the count of its two bound attributes, its markup.
BadPrefix(vals) ==
  <<OpenPart("bad"), Lit("bad", 1),
    AttrTok("title", <<AttrString(vals[1])>>), CountTok(2)>>
    \o [k \in 1..6 |-> Lit("bad", k + 3)]

\* C11 (constructor fault): a render of a template with a registered
\* element whose constructor throws does not fail for it: no instance of it
\* exists at any time (so none is assigned a property and none is
\* expanded), and a completed render has the start tag as a plain
\* element, the values of both bound attributes consumed, and the rest
\* of the template, the marker after the element included, rendered.
C11_CtorFaultRecovered ==
  \A r \in Calls :
    (isTemplateResult(call[r].input.value) /\ call[r].input.value.s = "bad")
    => /\ \A k \in 1..Len(call[r].objs) : call[r].objs[k].tagName # "x-bad"
       /\ \A k \in 1..Len(call[r].crs) : call[r].crs[k].tpl # "bad"
       /\ call[r].err # "Exception in custom element constructor"
       /\ (call[r].status = "error"
             => call[r].input.value.items[3] = RenderLightV)
       /\ call[r].status = "done"
            => /\ SubSeq(call[r].out, 1, 10)
                    = BadPrefix(call[r].input.value.items)
               /\ call[r].out[11] = OpenMarker(call[r].input.value.items[3])
               /\ \E k \in 1..Len(call[r].walks) :
                    /\ call[r].walks[k].tpl = "bad"
                    /\ Len(call[r].walks[k].log) = 3
                    /\ call[r].walks[k].log[3].how = "rendered"

\* A completed render of the template whose component constructor throws.
C11_Witness ==
  \E r \in Calls :
    /\ call[r].status = "done"
    /\ call[r].input.value
         = TemplateResult("bad", <<StrV("a"), StrV("b"), StrV("a")>>)
    /\ Len(call[r].out) = 14

\* The number of times the parser ran for a strings identity, over all
\* calls.
ParseCount(id) ==
  Cardinality(UNION {{<<r, k>> : k \in {j \in 1..Len(call[r].parses) :
                                          call[r].parses[j] = id}} :
                     r \in Calls})

\* The walks of a call that have their template: the frames of
\* renderTemplateResult past getTemplate.
WalksWithTemplate(r) ==
  {k \in 1..Len(call[r].stack) :
     /\ call[r].stack[k].kind = "walk"
     /\ call[r].stack[k].owner = 0
     /\ call[r].stack[k].pc # "getTemplate"}

\* The cache holds, under each strings identity, the one pair that is the
\* parse of those strings; every walk has the pair of its own strings,
\* which is the cached one; no strings identity was parsed twice.
CacheIsMemo ==
  /\ \A e \in templateCache : e = Parse(e.strings)
  /\ \A e1, e2 \in templateCache : e1.strings = e2.strings => e1 = e2
  /\ \A id \in TemplateIds : ParseCount(id) <= 1
  /\ \A r \in Calls : \A k \in WalksWithTemplate(r) :
       /\ call[r].stack[k].tpl = call[r].stack[k].strings
       /\ Parse(call[r].stack[k].strings) \in templateCache

\* C12 (template cache): over the calls of getTemplate of two renders in
\* any interleaving, TemplateResults with the same strings get the same
\* (markup, tree) pair, the parse of those strings; the parser runs at most
\* once per strings identity; and an entry of the cache is never removed
\* or replaced.
C12_CacheMemoization ==
  [](CacheIsMemo) /\ [][templateCache \subseteq templateCache']_vars

\* A completed render that walked templates and parsed none: every
\* getTemplate of it was answered from the cache the other call filled.
C12_Witness ==
  \E r \in Calls :
    /\ call[r].status = "done"
    /\ Len(call[r].walks) >= 1
    /\ call[r].parses = <<>>

\* The tokens of template T at the given indices.
Lits(T, idxs) == [k \in 1..Len(idxs) |-> Lit(T, idxs[k])]

\* What renderValue gives for the result of the template "child" with a
\* string.
ChildOf(str) ==
  <<OpenPart("child"), OpenPart(""), StrTok(str), ClosePart, ClosePart>>

\* The chunks each input of PairInputs gives when its call is the only
\* one of the process.
AloneOut(input) ==
  CASE input.value.k = "renderLight" -> <<OpenPart("")>>
    [] input.value.k = "repeat" ->
         <<OpenPart("")>> \o ChildOf("a") \o <<ClosePart>>
    [] input.value.k = "array" ->
         <<OpenPart("")>> \o ChildOf("b") \o ChildOf("b") \o <<ClosePart>>
    [] OTHER ->
         <<OpenPart("hostVals")>> \o Lits("hostVals", <<1, 2>>)
         \o <<OpenPart("xel")>> \o Lits("xel", <<1, 2>>)
         \o Lits("hostVals", <<3, 4, 5>>)
         \o <<OpenPart(""), StrTok("a"), ClosePart>>
         \o Lits("hostVals", <<7>>) \o Lits("xel", <<8>>) \o <<ClosePart>>
         \o Lits("hostVals", <<6, 7>>) \o <<OpenPart(""), ClosePart>>
         \o Lits("hostVals", <<7, 8>>)
         \o <<OpenPart("child"), OpenPart(""), ClosePart, ClosePart>>
         \o <<ClosePart>>

\* How the call of each input of PairInputs ends when it is the only one.
AloneStatus(input) ==
  IF input.value.k = "renderLight" THEN "error" ELSE "done"

IsPrefix(p, q) == Len(p) <= Len(q) /\ p = SubSeq(q, 1, Len(p))

\* The chunks of a call so far are the first chunks of its render alone,
\* and a call that has ended has ended as alone, with all of them.
AsAlone(r) ==
  /\ IsPrefix(call[r].out, AloneOut(call[r].input))
  /\ call[r].status \in {"done", "error"}
       => /\ call[r].status = AloneStatus(call[r].input)
          /\ call[r].out = AloneOut(call[r].input)

\* A step changes the state of one call at most.
OneCallSteps ==
  \A r, q \in Calls : (r # q /\ call'[r] # call[r]) => call'[q] = call[q]

\* C13 (concurrent renders): for two calls of render in any interleaving
\* of their steps, on the same or on different templates, cached or not,
\* each call yields the chunks it yields when it runs alone (the
\* behaviours in which the other call is never made are among those
\* checked), and no step of one call changes the cursor, part index,
\* distributed index, claimed sets or instance stack of the other.
C13_ConcurrentRenders ==
  [](\A r \in Calls : AsAlone(r)) /\ [][OneCallSteps]_vars

\* Two calls in the middle of walks of the same template at the same
\* time, both with chunks handed out.
C13_Witness ==
  /\ \A r \in Calls :
       /\ call[r].status = "running"
       /\ call[r].out # <<>>
       /\ Top(call[r]).kind = "walk"
       /\ Top(call[r]).strings = "child"
       /\ Top(call[r]).pc = "node"
  /\ call[1].input # call[2].input

\* A step leaves an abandoned call as it is, and the step that abandons a
\* call changes nothing of the process.
AbandonedStays ==
  \A r \in Calls :
    /\ call[r].status = "abandoned" => call'[r] = call[r]
    /\ (call[r].status = "running" /\ call'[r].status = "abandoned")
         => /\ templateCache' = templateCache
            /\ \A q \in Calls \ {r} : call'[q] = call[q]

\* C14 (abandoned render): once the consumer of a render has stopped
\* pulling, at any point, that render produces nothing more and changes
\* nothing; what it leaves in the process is at most the cache entries it
\* added, which stay; and a render started after the abandonment, of the
\* same or of another template, ends as it ends when it runs alone, with
\* the same chunks.
C14_AbandonedRender ==
  /\ [](\A r \in Calls :
          (call[r].after # {} /\ call[r].status \in {"done", "error"})
          => /\ call[r].status = AloneStatus(call[r].input)
             /\ call[r].out = AloneOut(call[r].input))
  /\ [][AbandonedStays /\ templateCache \subseteq templateCache']_vars

\* A render abandoned in the middle of a walk, with entries on its
\* instance stack and templates it had cached, and a completed render of
\* the same template started after that.
C14_Witness ==
  \E r \in Calls :
    /\ call[r].status = "done"
    /\ call[r].input.value.k = "tpl"
    /\ \E q \in call[r].after :
         /\ call[q].status = "abandoned"
         /\ call[q].input = call[r].input
         /\ call[q].instances # <<>>
         /\ call[q].parses # <<>>
         /\ call[q].out # <<>>


\* The entries of renderInfo.instances that the suspended walks under the
\* innermost frame hold: one for each whose current top-level node is an
\* element.
EntriesBelow(c) ==
  Cardinality({k \in 1 .. (Len(c.stack) - 1) :
    /\ c.stack[k].kind = "walk"
    /\ c.stack[k].pc \notin {"getTemplate", "top"}
    /\ c.stack[k].tops # <<>>
    /\ isElement(Html(c.stack[k].tpl), Head(c.stack[k].tops))})

\* The entries the innermost walk has pushed and not popped.
PushedEntries(c) ==
  SubSeq(c.instances, EntriesBelow(c) + 1, Len(c.instances))

\* The element ancestors-or-self of node n from the top-level node of the
\* walk down, outermost first.
Chain(h, top, n) ==
  Ascending({i \in NodeIds(h) :
               /\ isElement(h, i)
               /\ i = n \/ Inside(h, i, n)
               /\ i = top \/ Inside(h, top, i)})

\* The entries mirror the chain of node n: one entry per element of the
\* chain, with its tag, and an instance only on the entry of its own tag.
Mirrors(c, h, top, n) ==
  LET entries == PushedEntries(c)
  IN /\ Len(entries) = Len(Chain(h, top, n))
     /\ \A k \in 1 .. Len(entries) :
          /\ entries[k].tagName = h[Chain(h, top, n)[k]].s
          /\ entries[k].instance # 0 =>
               c.objs[entries[k].instance].tagName = entries[k].tagName

\* C17: when the walker is about to handle a node, the entries the walk
\* has pushed on renderInfo.instances are the element ancestors-or-self of
\* the node, outermost first, an instance being on the entry of its own
\* tag; between two top-level nodes and at the end of the walk the walk
\* has no entry on the stack.
C17_StackMirrorsNesting ==
  \A r \in Calls :
    /\ (Running(r, "walk", "node") /\ Top(call[r]).iter # <<>>)
         => Mirrors(call[r], Html(Top(call[r]).tpl),
                    Head(Top(call[r]).tops), Head(Top(call[r]).iter))
    /\ Running(r, "walk", "top") => PushedEntries(call[r]) = <<>>

\* No enclosing component instance: renderInfo.instances is empty or its
\* last entry has no instance.
NoInstance(c) ==
  c.instances = <<>> \/ c.instances[Len(c.instances)].instance = 0

\* C18: the dispatch of a renderLight directive with no enclosing instance
\* emits the opening marker, goes on to the closing marker with nothing in
\* between and does not fail; with an instance, the instance's
\* renderLight() result is dispatched after the opening marker.
C18_RenderLightDispatch ==
  [][\A r \in Calls :
       (/\ Running(r, "value", "start")
        /\ Top(call[r]).value = RenderLightV
        /\ call'[r] # call[r])
       => /\ call'[r].status = "running"
          /\ NewOut(r) = <<OpenPart("")>>
          /\ IF NoInstance(call[r])
             THEN call'[r].stack =
                    SetTop(call[r], [Top(call[r]) EXCEPT !.pc = "close"]).stack
             ELSE Top(call'[r]) =
                    ValueFrame(RenderLightOf(
                      call[r].instances[Len(call[r].instances)].tagName),
                      Top(call[r]).cr)]_vars

\* The innermost walk is still on the generator chain after a step of it.
WalkGoesOn(r) ==
  /\ Len(call'[r].stack) >= Len(call[r].stack)
  /\ call'[r].status = "running"

\* lastOffset of that walk after the step.
CursorAfter(r) == call'[r].stack[Len(call[r].stack)].lastOffset

\* The element handled is a registered custom element, whose start tag is
\* flushed after its attributes.
WritesTag(r) ==
  LET tagName == Html(Top(call[r]).tpl)[Head(Top(call[r]).iter)].s
  IN HasDash(tagName) /\ Ctor(tagName) # "none" /\ Top(call[r]).pc = "node"

\* The greatest element of a set of numbers.
Greatest(S) == CHOOSE a \in S : \A b \in S : b <= a

\* C19: in a step of a walk the literal markup emitted lies after the
\* cursor (no offset is emitted twice) and the cursor does not move
\* backwards; after the bound attributes of a start tag the cursor is at
\* the end of the last of them (at the end of the start tag when the tag
\* is flushed after them).
C19_CursorMonotonic ==
  [][\A r \in Calls :
       (/\ call[r].status = "running"
        /\ Top(call[r]).kind = "walk"
        /\ Top(call[r]).lastOffset # UndefOff
        /\ call'[r] # call[r])
       => /\ \A p \in 1 .. Len(NewOut(r)) :
               NewOut(r)[p].t = "lit"
               => NewOut(r)[p].n > Top(call[r]).lastOffset
          /\ (WalkGoesOn(r) /\ CursorAfter(r) # UndefOff)
               => CursorAfter(r) >= Top(call[r]).lastOffset
          /\ (/\ HandlesAttrs(r)
              /\ WalkGoesOn(r)
              /\ BoundAttrs(Html(Top(call[r]).tpl),
                            Head(Top(call[r]).iter)) # {})
               => CursorAfter(r) =
                    IF WritesTag(r)
                    THEN StartTagEndOffset(Html(Top(call[r]).tpl),
                                           Head(Top(call[r]).iter))
                    ELSE Greatest(BoundAttrs(Html(Top(call[r]).tpl),
                                             Head(Top(call[r]).iter)))]_vars

\* The indexes of the values of walk f that the distribution into slots
\* has rendered: by the walks of the child renderers f built.
Consumed(c, f) ==
  UNION {c.crs[k].rendered :
           k \in {m \in 1 .. Len(c.crs) : c.crs[m].set = f.set}}

WalkFrames(c) ==
  {c.stack[k] : k \in {m \in 1 .. Len(c.stack) : c.stack[m].kind = "walk"}}

\* The walk has rendered none of the values the distribution rendered, and
\* has suppressed no other value.
RenderedOnce(c, f) ==
  \A j \in 1 .. Len(f.log) :
    f.log[j].how = "placeholder" <=> f.log[j].i \in Consumed(c, f)

\* The handling of a child marker by a walk whose distributed index is set.
MarkerAfterExpansion(r) ==
  /\ Running(r, "walk", "node")
  /\ Top(call[r]).iter # <<>>
  /\ isCommentNode(Html(Top(call[r]).tpl), Head(Top(call[r]).iter))
  /\ Top(call[r]).distributedIndex # -1
  /\ call'[r] # call[r]
  /\ call'[r].status = "running"

\* What the handling of the marker does with the value v: the placeholder
\* pair and no dispatch when the distribution rendered v, the dispatch of v
\* when it did not.
SuppressedOrDispatched(r, v) ==
  IF Top(call[r]).partIndex \in Consumed(call[r], Top(call[r]))
  THEN /\ Len(call'[r].stack) = Len(call[r].stack)
       /\ Len(NewOut(r)) >= 2
       /\ SubSeq(NewOut(r), Len(NewOut(r)) - 1, Len(NewOut(r)))
            = <<OpenMarker(v), ClosePart>>
       /\ \A p \in 1 .. (Len(NewOut(r)) - 2) : NewOut(r)[p].t = "lit"
  ELSE /\ Top(call'[r]) = ValueFrame(v, Top(call[r]).cr)
       /\ \A p \in 1 .. Len(NewOut(r)) : NewOut(r)[p].t = "lit"

\* C20: after an expansion has set the distributed index, a child marker
\* whose value the distribution rendered gets the placeholder pair only
\* (with the digest for a template) and a marker whose value it did not
\* render is dispatched in full; no walk renders a value the distribution
\* rendered, and no walk suppresses another value.
C20_DistributedValues ==
  /\ [](\A r \in Calls : \A f \in WalkFrames(call[r]) :
          RenderedOnce(call[r], f))
  /\ [][\A r \in Calls :
          MarkerAfterExpansion(r)
          => SuppressedOrDispatched(r,
               ValueAt(Top(call[r]).vals, Top(call[r]).partIndex))]_vars

\* The walker is about to handle a <slot> element with flattening enabled.
AtSlot(r) ==
  /\ Running(r, "walk", "node")
  /\ Top(call[r]).iter # <<>>
  /\ isElement(Html(Top(call[r]).tpl), Head(Top(call[r]).iter))
  /\ Html(Top(call[r]).tpl)[Head(Top(call[r]).iter)].s = "slot"
  /\ Head(Top(call[r]).iter) \notin call[r].sets[Top(call[r]).set]
  /\ call[r].flattened

\* The walker is about to handle a node inside a <slot> element with
\* flattening enabled.
InSlot(r) ==
  /\ Running(r, "walk", "node")
  /\ Top(call[r]).iter # <<>>
  /\ call[r].flattened
  /\ \E i \in NodeIds(Html(Top(call[r]).tpl)) :
       /\ Html(Top(call[r]).tpl)[i].s = "slot"
       /\ i \notin call[r].sets[Top(call[r]).set]
       /\ Inside(Html(Top(call[r]).tpl), i, Head(Top(call[r]).iter))

\* C21: with flattening, the handling of a <slot> element emits the markup
\* from the cursor to the end of the slot's start tag and then calls the
\* child renderer, when there is one, for the slot's name; the nodes inside
\* the slot are neither emitted nor dispatched.
C21_SlotReplaced ==
  [][\A r \in Calls :
       /\ (AtSlot(r) /\ call'[r] # call[r])
           => /\ NewOut(r) =
                   Substring(Top(call[r]).tpl, Top(call[r]).lastOffset,
                             StartTagEndOffset(Html(Top(call[r]).tpl),
                                               Head(Top(call[r]).iter)))
              /\ IF Top(call[r]).cr # 0
                 THEN /\ Len(call'[r].stack) = Len(call[r].stack) + 1
                      /\ Top(call'[r]).slot =
                           getAttr(Html(Top(call[r]).tpl),
                                   Head(Top(call[r]).iter), "name")
                 ELSE Len(call'[r].stack) = Len(call[r].stack)
       /\ (InSlot(r) /\ call'[r] # call[r])
           => /\ NewOut(r) = <<>>
              /\ Len(call'[r].stack) = Len(call[r].stack)]_vars

\* ---------------------------------------------------------------------
\* Properties of hydrateShadowRoots.

\* The nodes of a list of element children and below, through children and
\* template contents.
RECURSIVE Under(_, _, _)
Under(doc, s, fuel) ==
  IF fuel = 0 THEN {}
  ELSE UNION {{s[i]} \cup Under(doc, doc.childNodes[s[i]], fuel - 1)
                     \cup Under(doc, doc.content[s[i]], fuel - 1) :
              i \in 1 .. Len(s)}

\* The <template> elements under root whose shadowroot attribute is 'open'
\* or 'closed', in the document hydrateShadowRoots was called on.
ShadowTemplates(h) ==
  {t \in Under(h.before, h.before.childNodes[h.root], MaxNodes) :
     /\ h.tagName[t] = "TEMPLATE"
     /\ h.shadowroot[t] \in {"open", "closed"}}

\* The content of template t was moved into a shadow root on the element
\* that was its parent, and t was removed from it.
Hydrated(h, t) ==
  /\ \E k \in 1 .. Len(h.attached) :
       /\ h.attached[k].template = t
       /\ Element(h.attached[k].host) = parentElement(h.before, Element(t))
  /\ h.content[t] = <<>>
  /\ h.shadowRoot[parentElement(h.before, Element(t)).id] = h.before.content[t]
  /\ t \in h.removed

SameDocument(h) ==
  /\ h.childNodes = h.before.childNodes
  /\ h.content = h.before.content
  /\ h.shadowRoot = h.before.shadowRoot
  /\ h.mode = h.before.mode

\* C15: without native support, when hydrateShadowRoots(root) has returned,
\* every <template> under root with shadowroot 'open' or 'closed' has its
\* content in a shadow root on its parent element and is removed; with
\* native support the document is unchanged.
C15_AllTemplatesHydrated ==
  hydration.status = "returned" =>
    IF hydration.hasNative THEN SameDocument(hydration)
    ELSE \A t \in ShadowTemplates(hydration) : Hydrated(hydration, t)

\* C16: when the content of a <template shadowroot> is attached as a shadow
\* root, every <template> with shadowroot 'open' or 'closed' inside that
\* content has had its own content attached before.
C16_BottomUp ==
  \A k \in 1 .. Len(hydration.attached) : hydration.attached[k].inside = {}

\* Template t is where it was, with the content it had, when
\* hydrateShadowRoots was called.
Untouched(h, t) ==
  /\ t \notin h.removed
  /\ parentElement(h, Element(t)) = parentElement(h.before, Element(t))
  /\ h.content[t] = h.before.content[t]

\* C22: when hydrateShadowRoots has returned, every template for which
\* attachShadow threw is still a child of its host and has its content.
C22_FailedAttachKeepsTemplate ==
  hydration.status = "returned" =>
    \A t \in hydration.threw : Untouched(hydration, t)

\* root and the nodes under it, in the document hydrateShadowRoots was
\* called on.
Subtree(h) ==
  {h.root} \cup Under(h.before, h.before.childNodes[h.root], MaxNodes)

\* C23: the current node of the traversal is never a node outside root's
\* subtree, and no template outside it is hydrated or removed.
C23_StaysInsideRoot ==
  /\ \A ref \in hydration.visited : ref = Null \/ ref.id \in Subtree(hydration)
  /\ \A k \in 1 .. Len(hydration.attached) :
       hydration.attached[k].template \in Subtree(hydration)
  /\ hydration.removed \subseteq Subtree(hydration)

\* hydrateShadowRoots has returned or has ended in an exception.
Stopped(h) == h.status \in {"returned", "threw"}

\* How many times n is in the sequence q.
Times(q, n) == Cardinality({k \in 1 .. Len(q) : q[k] = n})

\* Every template pushed was pushed once and popped once, and nothing else
\* was popped.
PoppedOnce(h) ==
  \A t \in Nodes :
    /\ Times(h.pushed, t) <= 1
    /\ Times(h.popped, t) = Times(h.pushed, t)

\* C24: hydrateShadowRoots stops on every document, and when it has
\* stopped the template stack is empty and every template that was pushed
\* has been popped exactly once.
C24_Terminates ==
  /\ <>Stopped(hydration)
  /\ [](Stopped(hydration) =>
          /\ hydration.templateStack = <<>>
          /\ PoppedOnce(hydration))

\* A call that has returned after it pushed and popped three templates, one
\* of them with a shadowroot mode that is neither 'open' nor 'closed'.
C24_Witness ==
  /\ hydration.status = "returned"
  /\ ~ hydration.hasNative
  /\ Len(hydration.popped) >= 3
  /\ \E k \in 1 .. Len(hydration.popped) :
       hydration.shadowroot[hydration.popped[k]] = "auto"
====
